---- MODULE Spec2Model ----
(***************************************************************************)
(* A model of backend/app/services/java_parser_service.py: the pattern     *)
(* based unit parser (JavaParserService._parse_java_content and helpers)   *)
(* and the repository scan (JavaParserService.parse_repository).           *)
(*                                                                         *)
(* A source text is a sequence of fragments.  Each fragment stands for a   *)
(* concrete piece of Java text (given in its "str" field); the table       *)
(* Fragment records, for every fragment, its length in characters, the     *)
(* newlines it holds and the matches the compiled patterns of              *)
(* _compile_patterns find in it, with their offsets inside the fragment.   *)
(***************************************************************************)
EXTENDS Integers, Sequences, FiniteSets, TLC

\* ------------------------------------------------------------------ bounds
MaxTextLen == 4      \* fragments in a source text
MaxFiles == 3        \* Java files in a repository with files of every kind
MaxExtraFiles == 1   \* Java files beyond the semaphore's value in a large repository
MaxScans == 2        \* calls of parse_repository on one service
MaxElements == 3     \* elements in a configuration document
MaxIdlLines == 5     \* lines in an IDL document
MaxParamTokens == 5  \* tokens in a parameter list
MaxScanLines == 4    \* lines in an IDL document that is scanned line by line
MaxJobs == 2         \* background jobs of a kind
MaxUrls == 3         \* repository URLs
MaxExtraClones == 1  \* URLs beyond max_concurrent_clones in a long list to clone
PadLines == 128      \* newlines in the fragment PAD (a block of blank lines)

\* ------------------------------------------------------------ small helpers
\* Python's None: as an optional record, and as an optional string
None == [none |-> TRUE]
NoneStr == "None"

\* the outcome of a call that may raise: its value, or the exception
Return(v) == [ok |-> TRUE, val |-> v]
Raise(e) == [ok |-> FALSE, exc |-> e]

RECURSIVE SumLen(_, _)
SumLen(f, n) == IF n = 0 THEN 0 ELSE f[n] + SumLen(f, n - 1)

RECURSIVE Flatten(_)
Flatten(ss) == IF ss = <<>> THEN <<>> ELSE Head(ss) \o Flatten(Tail(ss))

Reverse(s) == [i \in 1..Len(s) |-> s[Len(s) + 1 - i]]

Blanks(n) == [i \in 1..n |-> <<>>]

\* --------------------------------------------------------------- fragments
NoMatches == [package |-> <<>>, imports |-> <<>>, cls |-> <<>>, methods |-> <<>>,
              fields |-> <<>>, annots |-> <<>>, newlines |-> 0,
              struts_action |-> FALSE, corba_servant |-> FALSE,
              corba_helper |-> FALSE, comment |-> FALSE]

\* What the patterns of _compile_patterns match in each fragment.
\*   package, imports : groups of package_pattern / import_pattern
\*   cls              : matches of class_pattern   (offset, groups 1..4)
\*   methods          : matches of method_pattern  (offset, groups 1..4)
\*   fields           : matches of field_pattern   (offset, groups 1..3, and
\*                      the modifier keywords in the matched declaration)
\*   annots           : findall of annotation_pattern
\* The groups that the parser splits or strips further (the implements
\* clause, the parameter list, the throws clause, the initializer) are
\* sequences of tokens: words, "<", ">", "," and " "; a group that did not
\* take part in the match is <<>>.
Fragment ==
  [ PKG  |-> [NoMatches EXCEPT !.package = << "com.acme" >>]
               @@ [str |-> "package com.acme; ", len |-> 18],
    PKGB |-> [NoMatches EXCEPT !.package = << "org.other" >>]
               @@ [str |-> "package org.other; ", len |-> 19],
    CLSA |-> [NoMatches EXCEPT
                 !.cls = << [off |-> 0, kind |-> "class", name |-> "LoginAction",
                             extends |-> "Action", implements_str |-> <<>>] >>,
                 !.struts_action = TRUE]
               @@ [str |-> "public class LoginAction extends Action { ", len |-> 42],
    CLSB |-> [NoMatches EXCEPT
                 !.cls = << [off |-> 0, kind |-> "class", name |-> "B",
                             extends |-> NoneStr, implements_str |-> <<>>] >>]
               @@ [str |-> "class B { ", len |-> 10],
    MTH  |-> [NoMatches EXCEPT
                 !.methods = << [off |-> 0, return_type |-> "String", name |-> "execute",
                                 params |-> << "ActionMapping", " ", "m", ",", " ",
                                               "ActionForm", " ", "f" >>,
                                 throws_str |-> <<>>] >>,
                 !.fields = << [off |-> 55, type |-> "return", name |-> "null",
                                initial |-> <<>>, keywords |-> {}] >>]
               @@ [str |-> "public String execute(ActionMapping m, ActionForm f) { return null; } } ",
                   len |-> 72],
    FLD  |-> [NoMatches EXCEPT
                 !.fields = << [off |-> 0, type |-> "String", name |-> "X",
                                initial |-> << "\"abc\"" >>,
                                keywords |-> {"private", "static", "final"}] >>]
               @@ [str |-> "private static final String X = \"abc\"; ", len |-> 39],
    IMPL |-> [NoMatches EXCEPT
                 !.cls = << [off |-> 0, kind |-> "class", name |-> "C",
                             extends |-> NoneStr,
                             implements_str |-> << "Map", "<", "String", ",", "Integer",
                                                   ">", ",", " ", "Runnable", " " >>] >>]
               @@ [str |-> "class C implements Map<String,Integer>, Runnable { ",
                   len |-> 51],
    ANN  |-> [NoMatches EXCEPT !.annots = << "Override" >>]
               @@ [str |-> "@Override ", len |-> 10],
    NL   |-> [NoMatches EXCEPT !.newlines = 1]
               @@ [str |-> "\n", len |-> 1],
    PAD  |-> [NoMatches EXCEPT !.newlines = PadLines]
               @@ [str |-> "\n ... \n", len |-> PadLines] ]

FragmentIds == DOMAIN Fragment

\* offset in the text of fragment i: the characters before it
OffsetOf(text, i) == SumLen([k \in 1..Len(text) |-> Fragment[text[k]].len], i - 1)

\* content[:pos].count('\n'): the newlines of the fragments that end at or before pos
NewlinesBefore(text, pos) ==
  SumLen([k \in 1..Len(text) |->
            IF OffsetOf(text, k) + Fragment[text[k]].len <= pos
            THEN Fragment[text[k]].newlines ELSE 0], Len(text))

\* faulty variant: the lines are counted from 0
LineNumberFromZero(text, pos) == NewlinesBefore(text, pos)

\* content[:match.start()].count('\n') + 1
LineNumber(text, pos) == NewlinesBefore(text, pos) + 1

\* content.split('\n'): each line is the sequence of fragments on it
RECURSIVE SplitLines(_)
SplitLines(text) ==
  IF text = <<>> THEN << <<>> >>
  ELSE LET rest == SplitLines(Tail(text))
           f == Fragment[Head(text)]
       IN IF f.newlines > 0
          THEN << <<>> >> \o Blanks(f.newlines - 1) \o rest
          ELSE << <<Head(text)>> \o Head(rest) >> \o Tail(rest)

\* pattern.finditer(content): the matches of every fragment, in text order,
\* each with its offset in the whole text
Matches(text, what) ==
  Flatten([i \in 1..Len(text) |->
            [k \in 1..Len(Fragment[text[i]][what]) |->
               [Fragment[text[i]][what][k] EXCEPT !.off = @ + OffsetOf(text, i)]]])

\* the captured group of every match of a pattern, in text order
Groups(text, what) == Flatten([i \in 1..Len(text) |-> Fragment[text[i]][what]])

\* pattern.search(content) is not None, for the marker patterns
Marker(text, what) == \E i \in 1..Len(text) : Fragment[text[i]][what]

\* ------------------------------------------------------------- unit parser
\* faulty variant: the package is left out of the qualified name
QualifiedNameSimple(package, class_name) == class_name

\* package_pattern.search(content): the first match, "" without one
FirstOf(groups) == IF groups # <<>> THEN groups[1] ELSE ""

\* an exception raised inside _parse_java_content (list index out of range)
IndexError == Raise("IndexError")
\* the exception of a failed read in parse_java_file
OSError == Raise("OSError")

DefaultModifier ==
  [public |-> FALSE, private |-> FALSE, protected |-> FALSE, static |-> FALSE,
   final |-> FALSE, abstract |-> FALSE, synchronized |-> FALSE, native |-> FALSE,
   transient |-> FALSE, volatile |-> FALSE]

\* line.strip() is empty, or starts with // or /*
LineSkipped(line) == line = <<>> \/ Fragment[line[1]].comment

\* annotation_pattern.findall(line)
LineAnnotations(line) == Flatten([k \in 1..Len(line) |-> Fragment[line[k]].annots])

\* The loop of _parse_annotations_before_line: line_num starts at start_pos,
\* which is a character offset, and indexes the list of lines.  A run of
\* skipped lines (the continue branch) is walked in one step: n is the next
\* line below line_num that is not skipped.
RECURSIVE AnnotationWalk(_, _, _)
AnnotationWalk(lines, line_num, annotations) ==
  IF line_num > 0
  THEN IF line_num - 1 >= Len(lines) THEN IndexError
       ELSE LET kept == {k \in 0..(line_num - 1) : ~LineSkipped(lines[k + 1])} IN
            IF kept = {} THEN Return(Reverse(annotations))
            ELSE LET n == CHOOSE k \in kept : \A j \in kept : j <= k IN
                 IF LineAnnotations(lines[n + 1]) # <<>>
                 THEN AnnotationWalk(lines, n,
                                     annotations \o LineAnnotations(lines[n + 1]))
                 ELSE Return(Reverse(annotations))
  ELSE Return(Reverse(annotations))

parse_annotations_before_line(lines, start_pos) == AnnotationWalk(lines, start_pos, <<>>)

\* str.split() on a token sequence: the words between the blanks, each word
\* the sequence of the tokens it is made of
RECURSIVE SplitWords(_, _)
SplitWords(tokens, word) ==
  IF tokens = <<>> THEN (IF word = <<>> THEN <<>> ELSE <<word>>)
  ELSE IF Head(tokens) = " "
       THEN (IF word = <<>> THEN <<>> ELSE <<word>>) \o SplitWords(Tail(tokens), <<>>)
       ELSE SplitWords(Tail(tokens), Append(word, Head(tokens)))

\* not str.strip()
IsBlank(tokens) == \A i \in 1..Len(tokens) : tokens[i] = " "

\* str.strip() on a token sequence, as a string
RECURSIVE Join(_)
Join(tokens) == IF tokens = <<>> THEN "" ELSE Head(tokens) \o Join(Tail(tokens))

RECURSIVE StripLeft(_)
StripLeft(tokens) ==
  IF tokens # <<>> /\ Head(tokens) = " " THEN StripLeft(Tail(tokens)) ELSE tokens

Strip(tokens) == Join(Reverse(StripLeft(Reverse(StripLeft(tokens)))))

\* [x.strip() for x in group.split(',')]: a split at every comma
RECURSIVE SplitCommas(_, _)
SplitCommas(tokens, current) ==
  IF tokens = <<>> THEN <<Strip(current)>>
  ELSE IF Head(tokens) = ","
       THEN <<Strip(current)>> \o SplitCommas(Tail(tokens), <<>>)
       ELSE SplitCommas(Tail(tokens), Append(current, Head(tokens)))

\* "if group:" then the split, else the empty list
SplitClause(group) == IF group # <<>> THEN SplitCommas(group, <<>>) ELSE <<>>

\* 'CORBA' in throw, for the words the throws clauses of the model hold
CorbaWords == {"org.omg.CORBA.SystemException", "CORBAException"}

\* the first loop of _parse_parameters: split on commas at bracket depth 0
RECURSIVE SplitParams(_, _, _)
SplitParams(tokens, current_param, bracket_depth) ==
  IF tokens = <<>>
  THEN (IF IsBlank(current_param) THEN <<>> ELSE <<current_param>>)
  ELSE LET char == Head(tokens) IN
       IF char = "<"
       THEN SplitParams(Tail(tokens), Append(current_param, char), bracket_depth + 1)
       ELSE IF char = ">"
       THEN SplitParams(Tail(tokens), Append(current_param, char), bracket_depth - 1)
       ELSE IF char = "," /\ bracket_depth = 0
       THEN <<current_param>> \o SplitParams(Tail(tokens), <<>>, bracket_depth)
       ELSE SplitParams(Tail(tokens), Append(current_param, char), bracket_depth)

\* the tokens whose first character is "@"
AnnotationWords == {"@NotNull", "@Valid"}

\* part.startswith('@'), for a word of SplitWords
StartsWithAt(word) == Head(word) \in AnnotationWords

\* the words of a sequence as strings
Joined(words) == [i \in 1..Len(words) |-> Join(words[i])]

\* the second loop of _parse_parameters
ParseOneParameter(param_str) ==
  LET parts == SplitWords(param_str, <<>>)
      is_final == \E i \in 1..Len(parts) : Join(parts[i]) = "final"
  IN IF Len(parts) >= 2
     THEN << [name |-> Join(parts[Len(parts)]),
              type |-> IF is_final THEN Join(parts[Len(parts) - 1]) ELSE Join(parts[1]),
              is_final |-> is_final,
              annotations |-> Joined(SelectSeq(parts, StartsWithAt))] >>
     ELSE <<>>

parse_parameters(params_str) ==
  IF IsBlank(params_str) THEN <<>>
  ELSE LET param_parts == SplitParams(params_str, <<>>, 0)
       IN Flatten([i \in 1..Len(param_parts) |-> ParseOneParameter(param_parts[i])])

\* 'word' in params_str, for the words the parameter lists of the model hold
InTokens(word, tokens) == \E i \in 1..Len(tokens) : tokens[i] = word

\* One iteration of the loop of _parse_methods, for the match m.
ParseMethod(text, lines, m) ==
  LET found == parse_annotations_before_line(lines, m.off)
      annotations == found.val
      throws == SplitClause(m.throws_str)
  IN IF ~found.ok THEN found
     ELSE Return(
          [name |-> m.name,
           return_type |-> m.return_type,
           parameters |-> parse_parameters(m.params),
           modifiers |-> DefaultModifier,
           throws |-> throws,
           line_number |-> LineNumber(text, m.off),
           annotations |-> annotations,
           is_struts_action |-> \/ m.name \in {"execute", "perform"}
                                \/ InTokens("ActionMapping", m.params)
                                \/ InTokens("ActionForm", m.params),
           is_corba_method |-> \/ \E i \in 1..Len(annotations) :
                                      annotations[i] = "org.omg.CORBA"
                               \/ \E i \in 1..Len(throws) : throws[i] \in CorbaWords])

\* the loop of _parse_methods over the matches of method_pattern: it skips a
\* match whose return type is a keyword and ends when an iteration raises
RECURSIVE MethodLoop(_, _, _)
MethodLoop(text, lines, matches) ==
  IF matches = <<>> THEN Return(<<>>)
  ELSE IF Head(matches).return_type \in {"class", "interface", "enum"}
       THEN MethodLoop(text, lines, Tail(matches))
       ELSE LET method == ParseMethod(text, lines, Head(matches)) IN
            IF ~method.ok THEN method
            ELSE LET rest == MethodLoop(text, lines, Tail(matches)) IN
                 IF ~rest.ok THEN rest ELSE Return(<<method.val>> \o rest.val)

parse_methods(text, lines) == MethodLoop(text, lines, Matches(text, "methods"))

\* One iteration of the loop of _parse_fields.
ParseField(text, lines, m) ==
  LET found == parse_annotations_before_line(lines, m.off)
      annotations == found.val
  IN IF ~found.ok THEN found
     ELSE Return(
          [name |-> m.name,
           type |-> m.type,
           modifiers |-> DefaultModifier,
           initial_value |-> IF m.initial # <<>> THEN Strip(m.initial) ELSE NoneStr,
           line_number |-> LineNumber(text, m.off),
           annotations |-> annotations])

\* the loop of _parse_fields over the matches of field_pattern
RECURSIVE FieldLoop(_, _, _)
FieldLoop(text, lines, matches) ==
  IF matches = <<>> THEN Return(<<>>)
  ELSE LET field == ParseField(text, lines, Head(matches)) IN
       IF ~field.ok THEN field
       ELSE LET rest == FieldLoop(text, lines, Tail(matches)) IN
            IF ~rest.ok THEN rest ELSE Return(<<field.val>> \o rest.val)

parse_fields(text, lines) == FieldLoop(text, lines, Matches(text, "fields"))

QualifiedName(package, class_name) ==
  IF package # "" THEN package \o "." \o class_name ELSE class_name

\* _parse_java_content: returns a JavaClass record or None, or raises
parse_java_content(text, file_path) ==
  LET lines == SplitLines(text)
      packages == Groups(text, "package")
      package == FirstOf(packages)
      class_matches == Matches(text, "cls")
  IN IF class_matches = <<>> THEN Return(None)
     ELSE LET class_match == class_matches[1]
              methods == parse_methods(text, lines)
              fields == parse_fields(text, lines)
              annotations == parse_annotations_before_line(lines, class_match.off)
          IN IF ~methods.ok THEN methods
             ELSE IF ~fields.ok THEN fields
             ELSE IF ~annotations.ok THEN annotations
             ELSE Return(
                  [name |-> class_match.name,
                   qualified_name |-> QualifiedName(package, class_match.name),
                   type |-> class_match.kind,
                   package |-> package,
                   modifiers |-> DefaultModifier,
                   annotations |-> annotations.val,
                   extends |-> class_match.extends,
                   implements |-> SplitClause(class_match.implements_str),
                   methods |-> methods.val,
                   fields |-> fields.val,
                   inner_classes |-> <<>>,
                   imports |-> Groups(text, "imports"),
                   line_number |-> 0,
                   file_path |-> file_path,
                   is_struts_action |-> Marker(text, "struts_action"),
                   is_corba_servant |-> Marker(text, "corba_servant"),
                   is_corba_helper |-> ~Marker(text, "corba_servant")
                                       /\ Marker(text, "corba_helper")])

\* faulty variant: the exception leaves parse_java_file
CatchNothing(outcome) == IF outcome.ok THEN outcome.val ELSE outcome

\* faulty variant: a failure gives an empty class instead of None
CatchAsEmptyClass(outcome) ==
  IF outcome.ok THEN outcome.val
  ELSE [name |-> "", qualified_name |-> "", type |-> "class", package |-> "",
        modifiers |-> DefaultModifier, annotations |-> <<>>, extends |-> NoneStr,
        implements |-> <<>>, methods |-> <<>>, fields |-> <<>>,
        inner_classes |-> <<>>, imports |-> <<>>, line_number |-> 0,
        file_path |-> 0, is_struts_action |-> FALSE, is_corba_servant |-> FALSE,
        is_corba_helper |-> FALSE]

\* the except clause of parse_java_file: any exception becomes None
CatchAll(outcome) == IF outcome.ok THEN outcome.val ELSE None

\* parse_java_file on a file that holds text; readable is whether the read
\* succeeds
parse_java_file(file) ==
  CatchAll(IF file.readable THEN parse_java_content(file.content, file.path)
           ELSE OSError)

\* ----------------------------------------------------------- config parser
\* An empty dict, and a dict with one key set (d[k] = v).
EmptyDict == <<>>
Put(d, k, v) == (k :> v) @@ d

\* An attribute that an element does not have (Element.get returns None).
NoElement == [tag |-> NoneStr, path |-> NoneStr, type |-> NoneStr, name |-> NoneStr,
              scope |-> NoneStr, input |-> NoneStr, forwards |-> <<>>]

\* A routing-configuration document: whether ET.parse accepts it, and its
\* elements in document order.  forwards are the nested forward elements of
\* an action.
ConfigLogin ==
  [wellformed |-> TRUE,
   elements |-> << [NoElement EXCEPT !.tag = "action", !.path = "/login",
                       !.type = "LoginAction", !.name = "loginForm",
                       !.forwards = << [name |-> "success", path |-> "/home.jsp"] >>],
                   [NoElement EXCEPT !.tag = "form-bean", !.name = "loginForm",
                       !.type = "LoginForm"] >>]
\* a document that declares the path /login and the bean loginForm again
ConfigOrder ==
  [wellformed |-> TRUE,
   elements |-> << [NoElement EXCEPT !.tag = "action", !.path = "/order",
                       !.type = "OrderAction"],
                   [NoElement EXCEPT !.tag = "action", !.path = "/login",
                       !.type = "OrderLoginAction"],
                   [NoElement EXCEPT !.tag = "form-bean", !.name = "orderForm",
                       !.type = "OrderForm"],
                   [NoElement EXCEPT !.tag = "form-bean", !.name = "loginForm",
                       !.type = "OrderLoginForm"] >>]
ConfigBroken == [wellformed |-> FALSE, elements |-> <<>>]

\* The elements a configuration document may hold:
\*   <action path="/login" type="LoginAction">
\*     <forward name="success" path="/home.jsp"/></action>
\*   <action path="/login" type="RetryAction">
\*     <forward name="success" path="/a.jsp"/>
\*     <forward name="success" path="/b.jsp"/></action>
\*   <action type="NoPathAction"/>
\*   <action path="" type="EmptyPathAction"/>
\*   <action-mapping path="/legacy" type="LegacyAction"/>
\*   <form-bean name="loginForm" type="LoginForm"/>
ElementKinds ==
  { [NoElement EXCEPT !.tag = "action", !.path = "/login", !.type = "LoginAction",
        !.forwards = << [name |-> "success", path |-> "/home.jsp"] >>],
    [NoElement EXCEPT !.tag = "action", !.path = "/login", !.type = "RetryAction",
        !.forwards = << [name |-> "success", path |-> "/a.jsp"],
                        [name |-> "success", path |-> "/b.jsp"] >>],
    [NoElement EXCEPT !.tag = "action", !.type = "NoPathAction"],
    [NoElement EXCEPT !.tag = "action", !.path = "", !.type = "EmptyPathAction"],
    [NoElement EXCEPT !.tag = "action-mapping", !.path = "/legacy",
        !.type = "LegacyAction"],
    [NoElement EXCEPT !.tag = "form-bean", !.name = "loginForm", !.type = "LoginForm"] }

\* the documents given to a direct call of parse_struts_config
ConfigDocuments ==
  [wellformed : {TRUE},
   elements : UNION {[1..n -> ElementKinds] : n \in 0..MaxElements}]
  \cup {ConfigBroken}

\* an attribute value that Python takes as true: not None and not empty
Truthy(v) == v # NoneStr /\ v # ""

\* root.findall('.//' + tag)
FindAll(doc, tag) == SelectSeq(doc.elements, LAMBDA e : e.tag = tag)

\* the forwards dict of one action: later forwards overwrite earlier ones
RECURSIVE Forwards(_, _)
Forwards(forward_elements, forwards) ==
  IF forward_elements = <<>> THEN forwards
  ELSE LET forward == Head(forward_elements) IN
       Forwards(Tail(forward_elements),
                IF Truthy(forward.name) /\ Truthy(forward.path)
                THEN Put(forwards, forward.name, forward.path) ELSE forwards)

\* the loop over action_mappings of parse_struts_config
RECURSIVE ActionMappings(_, _)
ActionMappings(actions, mappings) ==
  IF actions = <<>> THEN mappings
  ELSE LET action == Head(actions) IN
       ActionMappings(Tail(actions),
         IF Truthy(action.path)
         THEN Put(mappings, action.path,
                  [path |-> action.path,
                   type |-> IF Truthy(action.type) THEN action.type ELSE "",
                   name |-> action.name, scope |-> action.scope,
                   input |-> action.input,
                   forwards |-> Forwards(action.forwards, EmptyDict),
                   form_bean |-> NoneStr])
         ELSE mappings)

\* the loop over form_beans of parse_struts_config, on self.struts_form_beans
RECURSIVE FormBeans(_, _)
FormBeans(form_beans, beans) ==
  IF form_beans = <<>> THEN beans
  ELSE LET form_bean == Head(form_beans) IN
       FormBeans(Tail(form_beans),
         IF Truthy(form_bean.name) /\ Truthy(form_bean.type)
         THEN Put(beans, form_bean.name,
                  [name |-> form_bean.name, type |-> form_bean.type,
                   properties |-> <<>>])
         ELSE beans)

\* the exception of ET.parse on a document that is malformed or unreadable
ParseError == Raise("ParseError")

\* the except clause of parse_struts_config: ET.parse raised before any
\* mapping or form bean was stored
CatchConfig(outcome, beans) ==
  IF outcome.ok THEN outcome.val
  ELSE [mappings |-> EmptyDict, struts_form_beans |-> beans]

\* parse_struts_config: the mappings it returns and self.struts_form_beans
\* after it; beans is self.struts_form_beans before it
parse_struts_config(doc, beans) ==
  CatchConfig(
    IF ~doc.wellformed THEN ParseError
    ELSE LET both == FindAll(doc, "action-mapping")
             action_mappings == IF both # <<>> THEN both ELSE FindAll(doc, "action")
         IN Return([mappings |-> ActionMappings(action_mappings, EmptyDict),
                    struts_form_beans |-> FormBeans(FindAll(doc, "form-bean"), beans)]),
    beans)

\* -------------------------------------------------------------- IDL parser
NoLine == [starts_module |-> FALSE, module |-> NoneStr,
           starts_interface |-> FALSE, interface |-> <<>>,
           closes |-> FALSE, parens |-> FALSE, operation |-> <<>>,
           has_attribute |-> FALSE, attribute |-> <<>>]

\* What parse_corba_idl tests on each (stripped) line:
\*   starts_module, starts_interface, closes : line.startswith(...)
\*   module, interface, operation, attribute : the groups of the re.search
\*   parens : '(' in line and ')' in line;  has_attribute : 'attribute' in line
IdlLine ==
  [ MODULE |-> [NoLine EXCEPT !.starts_module = TRUE, !.module = "Payment"]
                 @@ [str |-> "module Payment {"],
    IFACE  |-> [NoLine EXCEPT !.starts_interface = TRUE,
                   !.interface = << [name |-> "PaymentService", inherits_str |-> <<>>] >>]
                 @@ [str |-> "interface PaymentService {"],
    IFACEB |-> [NoLine EXCEPT !.starts_interface = TRUE,
                   !.interface = << [name |-> "AccountService",
                                     inherits_str |-> <<"PaymentService", " ">>] >>]
                 @@ [str |-> "interface AccountService : PaymentService {"],
    OP     |-> [NoLine EXCEPT !.parens = TRUE,
                   !.operation = << [name |-> "charge", return_type |-> "float",
                                     parameters |-> "in string id"] >>]
                 @@ [str |-> "float charge(in string id);"],
    ONELINE |-> [NoLine EXCEPT !.starts_module = TRUE, !.module = "Payment",
                   !.interface = << [name |-> "PaymentService", inherits_str |-> <<>>] >>,
                   !.parens = TRUE,
                   !.operation = << [name |-> "charge", return_type |-> "float",
                                     parameters |-> "in string id"] >>]
                 @@ [str |-> "module Payment { interface PaymentService { float charge(in string id); }; };"],
    OPB    |-> [NoLine EXCEPT !.parens = TRUE,
                   !.operation = << [name |-> "refund", return_type |-> "void",
                                     parameters |-> "in string id"] >>]
                 @@ [str |-> "void refund(in string id);"],
    ATTR   |-> [NoLine EXCEPT !.has_attribute = TRUE,
                   !.attribute = << [name |-> "balance", type |-> "long"] >>]
                 @@ [str |-> "attribute long balance;"],
    ATTRC  |-> [NoLine EXCEPT !.parens = TRUE, !.has_attribute = TRUE,
                   !.attribute = << [name |-> "limit", type |-> "long"] >>]
                 @@ [str |-> "attribute long limit; // (cached)"],
    CLOSE  |-> [NoLine EXCEPT !.closes = TRUE] @@ [str |-> "};"] ]

IdlLineIds == DOMAIN IdlLine

\* the inner while loop: the body of an interface, from line i (0-based)
RECURSIVE InterfaceBody(_, _, _)
InterfaceBody(lines, i, body) ==
  IF i < Len(lines) /\ ~IdlLine[lines[i + 1]].closes
  THEN LET op_line == IdlLine[lines[i + 1]] IN
       InterfaceBody(lines, i + 1,
         IF op_line.parens
         THEN [body EXCEPT !.operations = @ \o op_line.operation]
         ELSE IF op_line.has_attribute
         THEN [body EXCEPT !.attributes = @ \o op_line.attribute]
         ELSE body)
  ELSE [body EXCEPT !.i = i]

\* the outer while loop of parse_corba_idl, from line i (0-based)
RECURSIVE IdlScan(_, _, _, _)
IdlScan(lines, i, current_module, interfaces) ==
  IF i < Len(lines)
  THEN LET line == IdlLine[lines[i + 1]] IN
       IF line.starts_module
       THEN IdlScan(lines, i + 1,
                    IF line.module # NoneStr THEN line.module ELSE current_module,
                    interfaces)
       ELSE IF line.starts_interface /\ line.interface # <<>>
       THEN LET body == InterfaceBody(lines, i + 1,
                           [operations |-> <<>>, attributes |-> <<>>, i |-> i + 1])
                interface == line.interface[1]
            IN IdlScan(lines, body.i + 1, current_module,
                       Put(interfaces, interface.name,
                           [name |-> interface.name, module |-> current_module,
                            operations |-> body.operations,
                            attributes |-> body.attributes,
                            inherits |-> SplitClause(interface.inherits_str)]))
       ELSE IdlScan(lines, i + 1, current_module, interfaces)
  ELSE interfaces

\* faulty variant: the exception leaves parse_corba_idl
CatchIdlNothing(outcome) == IF outcome.ok THEN outcome.val ELSE outcome

\* the except clause of parse_corba_idl: the read raised before any
\* interface was stored
CatchIdl(outcome) == IF outcome.ok THEN outcome.val ELSE EmptyDict

\* parse_corba_idl: a failed read is caught and gives no interfaces
parse_corba_idl(doc) ==
  CatchIdl(IF doc.readable THEN Return(IdlScan(doc.lines, 0, "", EmptyDict))
           ELSE OSError)

IdlPayment == [readable |-> TRUE, lines |-> <<"MODULE", "IFACE", "OP", "ATTR", "CLOSE", "CLOSE">>]
\* a document that declares the interface PaymentService again
IdlAccount ==
  [readable |-> TRUE, lines |-> <<"IFACEB", "OP", "CLOSE", "IFACE", "OPB", "CLOSE">>]
IdlUnreadable == [readable |-> FALSE, lines |-> <<>>]

\* the lines of the documents given to a direct call of parse_corba_idl
CallLineIds == {"MODULE", "IFACE", "IFACEB", "OP", "ONELINE", "ATTR", "CLOSE"}

\* the documents given to a direct call of parse_corba_idl
IdlDocuments ==
  [readable : {TRUE}, lines : UNION {[1..n -> CallLineIds] : n \in 0..MaxIdlLines}]
  \cup {IdlUnreadable}

\* the lines of the documents whose scan is followed line by line
ScanLineIds == {"MODULE", "IFACE", "IFACEB", "OP", "OPB", "ATTR", "ATTRC", "CLOSE"}

ScanDocuments ==
  [readable : {TRUE}, lines : UNION {[1..n -> ScanLineIds] : n \in 0..MaxScanLines}]
  \cup {IdlUnreadable}

\* ------------------------------------------------------------------- state
VARIABLES
  unit,              \* parse_java_file: the file being parsed (path, content, readable)
  unit_result,       \* parse_java_file: what it returned, Pending before it returns
  pc,                \* parse_repository: where the coordinating coroutine is
  java_files,        \* parse_repository: the enumerated Java files
  tasks,             \* one _parse_file_with_semaphore task per file: state, result
  semaphore,         \* the value of the asyncio.Semaphore
  results,           \* parse_repository: the results dict
  struts_configs,    \* parse_repository: the enumerated configuration documents
  idl_files,         \* parse_repository: the enumerated IDL documents
  idl_done,          \* how many IDL documents the loop has parsed
  struts_form_beans, \* JavaParserService.struts_form_beans
  returned,          \* the dicts parse_repository has returned to its callers
  call,              \* a direct call of a parser: the operation and its argument
  call_result,       \* Return(what the direct call returned), Pending before that
  idl_scan,          \* parse_corba_idl followed line by line: its local variables
  active_jobs,       \* repositories.py: job id -> status, and where its task is
  analysis_jobs,     \* analysis.py: job id -> status, and where its task is
  discovery,         \* discover_dependencies: its local variables
  clone,             \* clone_repositories: its local variables and its tasks
  repository_cache   \* RepositoryService.repository_cache

vars == <<unit, unit_result, pc, java_files, tasks, semaphore, results,
          struts_configs, idl_files, idl_done, struts_form_beans, returned,
          call, call_result, idl_scan, active_jobs, analysis_jobs,
          discovery, clone, repository_cache>>

scan_vars == <<pc, java_files, tasks, semaphore, results, struts_configs,
               idl_files, idl_done, struts_form_beans, returned>>
job_vars == <<active_jobs, analysis_jobs>>
repo_vars == <<discovery, clone, repository_cache>>
local_vars == <<idl_scan, job_vars, repo_vars>>
unit_vars == <<unit, unit_result, call, call_result, local_vars>>
call_vars == <<call, call_result, local_vars>>
unit_vars_but_jobs == <<unit, unit_result, call, call_result, idl_scan, repo_vars>>

Pending == [pending |-> TRUE]

\* the source texts of the model
Texts == UNION {[1..n -> FragmentIds] : n \in 0..MaxTextLen}

\* the value of results['struts_form_beans'] when it is the very dict
\* self.struts_form_beans (line 649 assigns the object, not a copy)
SelfFormBeans == [ref |-> "self.struts_form_beans"]
OwnDict(d) == [ref |-> "own", val |-> d]

\* the dict created at the top of parse_repository
FreshResults ==
  [classes |-> EmptyDict,
   struts_mappings |-> EmptyDict,
   struts_form_beans |-> OwnDict(EmptyDict),
   corba_interfaces |-> EmptyDict,
   statistics |-> [total_files |-> 0, java_files |-> 0, struts_actions |-> 0,
                   corba_servants |-> 0, total_methods |-> 0, total_fields |-> 0]]

\* the local variables of parse_corba_idl; where = "none" before the call,
\* "outer" and "inner" in the two while loops, "done" after the return
NoScan ==
  [where |-> "none", i |-> 0, current_module |-> "", interfaces |-> EmptyDict,
   interface_name |-> "", inherits |-> <<>>, operations |-> <<>>,
   attributes |-> <<>>]

\* the module-level dicts of the routes
InitRoutes ==
  /\ active_jobs = EmptyDict
  /\ analysis_jobs = EmptyDict

\* the repository URLs
Urls == 1..MaxUrls

\* the local variables of discover_dependencies; where = "none" before the
\* call, "loop" in the while loop, "done" after the return.  analysed is the
\* log of the repositories analysed, edges and failed what the analysis of a
\* repository gave: the set of the URLs it resolved to, or an exception
NoDiscovery ==
  [where |-> "none", start |-> 0, to_process |-> <<>>, processed |-> {},
   discovered_repos |-> {}, analysed |-> <<>>, edges |-> [u \in Urls |-> {}],
   failed |-> {}, result |-> <<>>]

\* the local variables of clone_repositories and the tasks of its gather;
\* where = "none" before the call, "gather" while it waits for the tasks,
\* "done" after the return
NoClone ==
  [where |-> "none", repository_urls |-> <<>>, tasks |-> <<>>, semaphore |-> 0,
   cloned_repos |-> EmptyDict]

\* RepositoryService.__init__, and no call in progress
InitRepositoryService ==
  /\ repository_cache = EmptyDict
  /\ discovery = NoDiscovery
  /\ clone = NoClone

\* JavaParserService.__init__, and no call in progress; the routes and the
\* repository service as they are created
InitService ==
  /\ InitRoutes
  /\ InitRepositoryService
  /\ idl_scan = NoScan
  /\ pc = "idle"
  /\ java_files = <<>>
  /\ tasks = <<>>
  /\ semaphore = 0
  /\ results = FreshResults
  /\ struts_configs = <<>>
  /\ idl_files = <<>>
  /\ idl_done = 0
  /\ struts_form_beans = EmptyDict
  /\ returned = <<>>

NoUnit == [path |-> 0, content |-> <<>>, readable |-> FALSE]
NoCall == [op |-> NoneStr]

\* ---------------------------------------------------- parsing one source unit
InitParse ==
  /\ unit \in [path : {0}, content : Texts, readable : BOOLEAN]
  /\ unit_result = Pending
  /\ call = NoCall
  /\ call_result = Pending
  /\ InitService

\* parse_java_file(file_path)
ParseJavaFile ==
  /\ unit_result = Pending
  /\ unit_result' = parse_java_file(unit)
  /\ UNCHANGED <<unit, scan_vars, call_vars>>

NextParse == ParseJavaFile

SpecParse == InitParse /\ [][NextParse]_vars

\* ------------------------------------------- parsing one configuration document
InitConfig ==
  /\ call \in [op : {"parse_struts_config"}, arg : ConfigDocuments]
  /\ call_result = Pending
  /\ unit = NoUnit
  /\ unit_result = Pending
  /\ InitService

\* parse_struts_config(config_path), called on the service
ParseStrutsConfig ==
  /\ call.op = "parse_struts_config"
  /\ call_result = Pending
  /\ LET parsed == parse_struts_config(call.arg, struts_form_beans)
     IN /\ call_result' = Return(parsed.mappings)
        /\ struts_form_beans' = parsed.struts_form_beans
  /\ UNCHANGED <<call, unit, unit_result, pc, java_files, tasks, semaphore, results,
                 struts_configs, idl_files, idl_done, returned, local_vars>>

NextConfig == ParseStrutsConfig

SpecConfig == InitConfig /\ [][NextConfig]_vars

\* --------------------------------------------------- parsing one IDL document
InitIdl ==
  /\ call \in [op : {"parse_corba_idl"}, arg : IdlDocuments]
  /\ call_result = Pending
  /\ unit = NoUnit
  /\ unit_result = Pending
  /\ InitService

\* parse_corba_idl(idl_path), called on the service
ParseCorbaIdl ==
  /\ call.op = "parse_corba_idl"
  /\ call_result = Pending
  /\ call_result' = Return(parse_corba_idl(call.arg))
  /\ UNCHANGED <<call, unit, unit_result, scan_vars, local_vars>>

NextIdl == ParseCorbaIdl

SpecIdl == InitIdl /\ [][NextIdl]_vars

\* ------------------------------------- scanning one IDL document line by line
\* faulty variant: the line index is not advanced
SameLine(i) == i

\* i += 1
NextLine(i) == i + 1

\* faulty variant: no line closes the body of an interface
NeverCloses(line) == FALSE

\* lines[i].strip().startswith('}')
Closes(line) == line.closes

\* the line lines[i] of the document being scanned (i is 0-based)
ScanLine == IdlLine[call.arg.lines[idl_scan.i + 1]]

InitIdlScan ==
  /\ call \in [op : {"parse_corba_idl"}, arg : ScanDocuments]
  /\ call_result = Pending
  /\ unit = NoUnit
  /\ unit_result = Pending
  /\ InitService

\* the read of the document: a failure is caught and {} is returned
IdlRead ==
  /\ idl_scan.where = "none"
  /\ call_result = Pending
  /\ IF call.arg.readable
     THEN /\ idl_scan' = [idl_scan EXCEPT !.where = "outer"]
          /\ UNCHANGED call_result
     ELSE /\ idl_scan' = [idl_scan EXCEPT !.where = "done"]
          /\ call_result' = Return(CatchIdl(OSError))
  /\ UNCHANGED <<call, unit, unit_result, scan_vars, job_vars, repo_vars>>

\* one pass of the outer while loop up to the inner loop: a module line, an
\* interface line that opens a body, or any other line
IdlOuterStep ==
  /\ idl_scan.where = "outer"
  /\ idl_scan.i < Len(call.arg.lines)
  /\ LET line == ScanLine IN
     idl_scan' =
       IF line.starts_module
       THEN [idl_scan EXCEPT
               !.current_module = IF line.module # NoneStr THEN line.module ELSE @,
               !.i = NextLine(@)]
       ELSE IF line.starts_interface /\ line.interface # <<>>
       THEN [idl_scan EXCEPT
               !.where = "inner",
               !.interface_name = line.interface[1].name,
               !.inherits = SplitClause(line.interface[1].inherits_str),
               !.operations = <<>>,
               !.attributes = <<>>,
               !.i = NextLine(@)]
       ELSE [idl_scan EXCEPT !.i = NextLine(@)]
  /\ UNCHANGED <<call, call_result, unit, unit_result, scan_vars, job_vars, repo_vars>>

\* one pass of the inner while loop: a line of the body of the interface
IdlInnerStep ==
  /\ idl_scan.where = "inner"
  /\ idl_scan.i < Len(call.arg.lines) /\ ~Closes(ScanLine)
  /\ LET op_line == ScanLine IN
     idl_scan' =
       IF op_line.parens
       THEN [idl_scan EXCEPT !.operations = @ \o op_line.operation, !.i = NextLine(@)]
       ELSE IF op_line.has_attribute
       THEN [idl_scan EXCEPT !.attributes = @ \o op_line.attribute, !.i = NextLine(@)]
       ELSE [idl_scan EXCEPT !.i = NextLine(@)]
  /\ UNCHANGED <<call, call_result, unit, unit_result, scan_vars, job_vars, repo_vars>>

\* the end of the inner loop: the interface is stored under its name and the
\* pass of the outer loop ends with its i += 1
IdlInnerExit ==
  /\ idl_scan.where = "inner"
  /\ ~(idl_scan.i < Len(call.arg.lines) /\ ~Closes(ScanLine))
  /\ idl_scan' =
       [idl_scan EXCEPT
          !.where = "outer",
          !.interfaces = Put(@, idl_scan.interface_name,
                             [name |-> idl_scan.interface_name,
                              module |-> idl_scan.current_module,
                              operations |-> idl_scan.operations,
                              attributes |-> idl_scan.attributes,
                              inherits |-> idl_scan.inherits]),
          !.i = NextLine(@)]
  /\ UNCHANGED <<call, call_result, unit, unit_result, scan_vars, job_vars, repo_vars>>

\* the end of the outer loop: parse_corba_idl returns interfaces
IdlReturn ==
  /\ idl_scan.where = "outer"
  /\ ~(idl_scan.i < Len(call.arg.lines))
  /\ idl_scan' = [idl_scan EXCEPT !.where = "done"]
  /\ call_result' = Return(idl_scan.interfaces)
  /\ UNCHANGED <<call, unit, unit_result, scan_vars, job_vars, repo_vars>>

NextIdlScan ==
  \/ IdlRead
  \/ IdlOuterStep
  \/ IdlInnerStep
  \/ IdlInnerExit
  \/ IdlReturn

SpecIdlScan == InitIdlScan /\ [][NextIdlScan]_vars

\* the scan is straight code of one coroutine without an await: once
\* started it runs on
FairSpecIdlScan == SpecIdlScan /\ WF_vars(NextIdlScan)

\* --------------------------------------------------- parsing one parameter list
\* the tokens of the parameter lists given to a direct call
ParamTokens == {"String", "id", "@NotNull", "final", " ", ",", "<", ">"}

ParamLists == UNION {[1..n -> ParamTokens] : n \in 0..MaxParamTokens}

InitParams ==
  /\ call \in [op : {"_parse_parameters"}, arg : ParamLists]
  /\ call_result = Pending
  /\ unit = NoUnit
  /\ unit_result = Pending
  /\ InitService

\* _parse_parameters(params_str)
ParseParameters ==
  /\ call.op = "_parse_parameters"
  /\ call_result = Pending
  /\ call_result' = Return(parse_parameters(call.arg))
  /\ UNCHANGED <<call, unit, unit_result, scan_vars, local_vars>>

NextParams == ParseParameters

SpecParams == InitParams /\ [][NextParams]_vars

\* ------------------------------------------------------ the background jobs
\* the values of JobStatus that end a job
Finished == {"COMPLETED", "FAILED", "CANCELLED"}

\* uuid4: an id that no job of the dict has
FreshJob(jobs) ==
  CHOOSE id \in 1..MaxJobs : id \notin DOMAIN jobs /\ \A k \in 1..(id - 1) : k \in DOMAIN jobs

\* the entry of a new job, its task handed to background_tasks
NewJob == [status |-> "STARTED", task |-> "queued"]

\* cancel_job and cancel_analysis answer 404 or 400 and change nothing
\* unless the job is known and not finished
CanCancel(jobs, job_id) ==
  job_id \in DOMAIN jobs /\ jobs[job_id].status \notin Finished

\* the assignment jobs[job_id]["status"] = status of a handler or a task
SetStatus(jobs, job_id, status) == [jobs EXCEPT ![job_id].status = status]

\* the first statement of a background task: the task starts to run
TaskBegins(jobs, job_id) ==
  [jobs EXCEPT ![job_id] = [status |-> "IN_PROGRESS", task |-> "running"]]

\* the last statement of a background task, in its try block ("COMPLETED")
\* or in its except block ("FAILED")
TaskEnds(jobs, job_id, status) ==
  [jobs EXCEPT ![job_id] = [status |-> status, task |-> "finished"]]

\* POST /discover
DiscoverRepositories ==
  /\ Cardinality(DOMAIN active_jobs) < MaxJobs
  /\ active_jobs' = Put(active_jobs, FreshJob(active_jobs), NewJob)
  /\ UNCHANGED <<unit_vars_but_jobs, scan_vars, analysis_jobs>>

\* _discover_repositories_task up to its await
DiscoverTaskBegins(job_id) ==
  /\ job_id \in DOMAIN active_jobs
  /\ active_jobs[job_id].task = "queued"
  /\ active_jobs' = TaskBegins(active_jobs, job_id)
  /\ UNCHANGED <<unit_vars_but_jobs, scan_vars, analysis_jobs>>

\* _discover_repositories_task after its await: discover_dependencies has
\* returned, or an exception was caught
DiscoverTaskEnds(job_id) ==
  /\ job_id \in DOMAIN active_jobs
  /\ active_jobs[job_id].task = "running"
  /\ \E status \in {"COMPLETED", "FAILED"} :
       active_jobs' = TaskEnds(active_jobs, job_id, status)
  /\ UNCHANGED <<unit_vars_but_jobs, scan_vars, analysis_jobs>>

\* DELETE /jobs/{job_id} of repositories.py
CancelJob(job_id) ==
  /\ CanCancel(active_jobs, job_id)
  /\ active_jobs' = SetStatus(active_jobs, job_id, "CANCELLED")
  /\ UNCHANGED <<unit_vars_but_jobs, scan_vars, analysis_jobs>>

\* POST /comprehensive
StartComprehensiveAnalysis ==
  /\ Cardinality(DOMAIN analysis_jobs) < MaxJobs
  /\ analysis_jobs' = Put(analysis_jobs, FreshJob(analysis_jobs), NewJob)
  /\ UNCHANGED <<unit_vars_but_jobs, scan_vars, active_jobs>>

\* _comprehensive_analysis_task up to its first await
AnalysisTaskBegins(job_id) ==
  /\ job_id \in DOMAIN analysis_jobs
  /\ analysis_jobs[job_id].task = "queued"
  /\ analysis_jobs' = TaskBegins(analysis_jobs, job_id)
  /\ UNCHANGED <<unit_vars_but_jobs, scan_vars, active_jobs>>

\* _comprehensive_analysis_task after its last await: the results are
\* stored, or an exception was caught
AnalysisTaskEnds(job_id) ==
  /\ job_id \in DOMAIN analysis_jobs
  /\ analysis_jobs[job_id].task = "running"
  /\ \E status \in {"COMPLETED", "FAILED"} :
       analysis_jobs' = TaskEnds(analysis_jobs, job_id, status)
  /\ UNCHANGED <<unit_vars_but_jobs, scan_vars, active_jobs>>

\* DELETE /jobs/{job_id} of analysis.py
CancelAnalysis(job_id) ==
  /\ CanCancel(analysis_jobs, job_id)
  /\ analysis_jobs' = SetStatus(analysis_jobs, job_id, "CANCELLED")
  /\ UNCHANGED <<unit_vars_but_jobs, scan_vars, active_jobs>>

NextJobs ==
  \/ DiscoverRepositories
  \/ \E job_id \in 1..MaxJobs : DiscoverTaskBegins(job_id)
  \/ \E job_id \in 1..MaxJobs : DiscoverTaskEnds(job_id)
  \/ \E job_id \in 1..MaxJobs : CancelJob(job_id)
  \/ StartComprehensiveAnalysis
  \/ \E job_id \in 1..MaxJobs : AnalysisTaskBegins(job_id)
  \/ \E job_id \in 1..MaxJobs : AnalysisTaskEnds(job_id)
  \/ \E job_id \in 1..MaxJobs : CancelAnalysis(job_id)

\* -------------------------------------------------- the dependency discovery
\* the elements of a list
Range(s) == {s[i] : i \in 1..Len(s)}

\* the lists a set can be written as (list(discovered_repos))
ListsOf(set) ==
  {s \in [1..Cardinality(set) -> set] : Range(s) = set}

\* what _resolve_dependency_repositories may return: a list of URLs, the
\* same URL twice included
DependencyLists ==
  {<<>>} \cup {<<u>> : u \in Urls} \cup {<<u, v>> : u, v \in Urls}

\* faulty variant: every resolved URL is queued
EnqueueAlways(repo_url, processed, to_process) == TRUE

\* if repo_url not in processed and repo_url not in to_process
ShouldEnqueue(repo_url, processed, to_process) ==
  repo_url \notin processed /\ repo_url \notin Range(to_process)

\* the loop "for repo_url in new_repos"
RECURSIVE Enqueue(_, _, _)
Enqueue(new_repos, processed, to_process) ==
  IF new_repos = <<>> THEN to_process
  ELSE Enqueue(Tail(new_repos), processed,
               IF ShouldEnqueue(Head(new_repos), processed, to_process)
               THEN Append(to_process, Head(new_repos)) ELSE to_process)

\* discover_dependencies up to its while loop
DiscoverStart(starting_repo_url) ==
  /\ discovery.where = "none"
  /\ discovery' = [NoDiscovery EXCEPT !.where = "loop", !.start = starting_repo_url,
                                      !.to_process = <<starting_repo_url>>]
  /\ UNCHANGED <<unit, unit_result, call, call_result, idl_scan, scan_vars,
                 job_vars, clone, repository_cache>>

\* one pass of the while loop: the head of the queue is taken and, unless
\* processed already, analysed; the analysis raises, or resolves to a list of
\* URLs that are queued
DiscoverPass ==
  /\ discovery.where = "loop"
  /\ discovery.to_process # <<>>
  /\ LET current_repo == Head(discovery.to_process)
         rest == Tail(discovery.to_process)
     IN IF current_repo \in discovery.processed
        THEN discovery' = [discovery EXCEPT !.to_process = rest]
        ELSE LET taken == [discovery EXCEPT
                             !.to_process = rest,
                             !.processed = @ \cup {current_repo},
                             !.discovered_repos = @ \cup {current_repo},
                             !.analysed = Append(@, current_repo)]
             IN \/ discovery' = [taken EXCEPT !.failed = @ \cup {current_repo},
                                              !.edges[current_repo] = {}]
                \/ \E new_repos \in DependencyLists :
                     discovery' =
                       [taken EXCEPT
                          !.failed = @ \ {current_repo},
                          !.edges[current_repo] = Range(new_repos),
                          !.to_process = Enqueue(new_repos, taken.processed, rest)]
  /\ UNCHANGED <<unit, unit_result, call, call_result, idl_scan, scan_vars,
                 job_vars, clone, repository_cache>>

\* the end of the while loop: list(discovered_repos) is returned
DiscoverReturn ==
  /\ discovery.where = "loop"
  /\ discovery.to_process = <<>>
  /\ \E result \in ListsOf(discovery.discovered_repos) :
       discovery' = [discovery EXCEPT !.where = "done", !.result = result]
  /\ UNCHANGED <<unit, unit_result, call, call_result, idl_scan, scan_vars,
                 job_vars, clone, repository_cache>>

NextDiscover ==
  \/ \E starting_repo_url \in Urls : DiscoverStart(starting_repo_url)
  \/ DiscoverPass
  \/ DiscoverReturn

\* ------------------------------------------------------- the repository scan
\* asyncio.Semaphore(10)
SemaphoreValue == 10

\* faulty variant: the entries already in the dict are kept
UpdateKeepFirst(d, other) == d @@ other

\* dict.update(other)
Update(d, other) == other @@ d

\* faulty variant: the semaphore never makes a task wait
SlotAlways(value) == TRUE

\* Semaphore.acquire returns at once while the value is positive; otherwise
\* the task waits, first come first served
SlotFree(value) == value > 0

\* faulty variant: the semaphore is not released
ReleaseNever(value) == value

\* Semaphore.release, at the exit of "async with semaphore"
Release(value) == value + 1

\* faulty variant: the coordinator goes on as soon as one task has returned
GatheredFirst(ts) == \E i \in 1..Len(ts) : ts[i].state = "done"

\* asyncio.gather returns when every task has returned
Gathered(ts) == \A i \in 1..Len(ts) : ts[i].state = "done"

IsException(result) == "exc" \in DOMAIN result

\* faulty variant: the classes are keyed by their simple name
SetClassByName(classes, key, result) == Put(classes, result.name, result)

\* faulty variant: an entry already in the dict is kept
SetClassFirst(classes, key, result) ==
  IF key \in DOMAIN classes THEN classes ELSE Put(classes, key, result)

\* the dict assignment of the merge loop: results['classes'][key] = result
SetClass(classes, key, result) == Put(classes, key, result)

\* the loop "for i, result in enumerate(parsed_classes)" from index i on
RECURSIVE ProcessResults(_, _, _)
ProcessResults(res, parsed_classes, i) ==
  IF i > Len(parsed_classes) THEN res
  ELSE LET result == parsed_classes[i] IN
       IF IsException(result) \/ result = None
       THEN ProcessResults(res, parsed_classes, i + 1)
       ELSE ProcessResults(
              [res EXCEPT
                 !.classes = SetClass(@, result.qualified_name, result),
                 !.statistics.total_methods = @ + Len(result.methods),
                 !.statistics.total_fields = @ + Len(result.fields),
                 !.statistics.struts_actions =
                     IF result.is_struts_action THEN @ + 1 ELSE @,
                 !.statistics.corba_servants =
                     IF result.is_corba_servant THEN @ + 1 ELSE @],
              parsed_classes, i + 1)

\* the loop over struts_configs: the merged mappings and self.struts_form_beans
RECURSIVE ProcessConfigs(_, _, _)
ProcessConfigs(configs, mappings, beans) ==
  IF configs = <<>> THEN [mappings |-> mappings, struts_form_beans |-> beans]
  ELSE LET parsed == parse_struts_config(Head(configs), beans) IN
       ProcessConfigs(Tail(configs), Update(mappings, parsed.mappings),
                      parsed.struts_form_beans)

\* parse_repository up to its first await: the results dict, the enumeration
\* of the Java files and the creation of one task per file.
StartScan(files) ==
  /\ pc = "idle"
  /\ java_files' = files
  /\ results' = [FreshResults EXCEPT !.statistics.java_files = Len(files)]
  /\ semaphore' = SemaphoreValue
  /\ tasks' = [i \in 1..Len(files) |-> [state |-> "pending", result |-> None]]
  /\ struts_configs' = <<>>
  /\ idl_files' = <<>>
  /\ idl_done' = 0
  /\ pc' = "gather"
  /\ UNCHANGED <<struts_form_beans, returned, unit_vars>>

\* _parse_file_with_semaphore: "async with semaphore" is entered.  The tasks
\* reach the semaphore in the order gather created them.
Acquire(i) ==
  /\ tasks[i].state = "pending"
  /\ \A j \in 1..(i - 1) : tasks[j].state # "pending"
  /\ SlotFree(semaphore)
  /\ semaphore' = semaphore - 1
  /\ tasks' = [tasks EXCEPT ![i].state = "reading"]
  /\ UNCHANGED <<pc, java_files, results, struts_configs, idl_files, idl_done,
                 struts_form_beans, returned, unit_vars>>

\* _parse_file_with_semaphore: the read ends, parse_java_file returns and the
\* semaphore is released.
Finish(i) ==
  /\ tasks[i].state = "reading"
  /\ tasks' = [tasks EXCEPT ![i] = [state |-> "done",
                                     result |-> parse_java_file(java_files[i])]]
  /\ semaphore' = Release(semaphore)
  /\ UNCHANGED <<pc, java_files, results, struts_configs, idl_files, idl_done,
                 struts_form_beans, returned, unit_vars>>

\* parse_repository from the return of gather to the first read of an IDL
\* document: the merge loop, the configuration documents (configs is what
\* rglob finds), the form beans, and the enumeration of the IDL documents.
Merge(configs, idls) ==
  /\ pc = "gather"
  /\ Gathered(tasks)
  /\ LET merged == ProcessResults(results,
                                  [i \in 1..Len(tasks) |-> tasks[i].result], 1)
         parsed == ProcessConfigs(configs, merged.struts_mappings, struts_form_beans)
     IN /\ results' = [merged EXCEPT !.struts_mappings = parsed.mappings,
                                     !.struts_form_beans = SelfFormBeans]
        /\ struts_form_beans' = parsed.struts_form_beans
  /\ struts_configs' = configs
  /\ idl_files' = idls
  /\ idl_done' = 0
  /\ pc' = "idl"
  /\ UNCHANGED <<java_files, tasks, semaphore, returned, unit_vars>>

\* one iteration of the loop over idl_files: the read ends and the document
\* is parsed and merged
ParseIdl ==
  /\ pc = "idl"
  /\ idl_done < Len(idl_files)
  /\ results' = [results EXCEPT !.corba_interfaces =
                    Update(@, parse_corba_idl(idl_files[idl_done + 1]))]
  /\ idl_done' = idl_done + 1
  /\ UNCHANGED <<pc, java_files, tasks, semaphore, struts_configs, idl_files,
                 struts_form_beans, returned, unit_vars>>

\* the end of parse_repository: total_files is set and the dict is returned
ReturnResults ==
  /\ pc = "idl"
  /\ idl_done = Len(idl_files)
  /\ LET final == [results EXCEPT !.statistics.total_files =
                      Len(java_files) + Len(struts_configs) + Len(idl_files)]
     IN /\ results' = final
        /\ returned' = Append(returned, final)
  /\ pc' = "idle"
  /\ UNCHANGED <<java_files, tasks, semaphore, struts_configs, idl_files,
                 idl_done, struts_form_beans, unit_vars>>

\* ------------------------------------------------------------- the cloning
\* RepositoryService.__init__: max_concurrent_clones: int = 5
max_concurrent_clones == 5

\* the lists of URLs given to clone_repositories: every list of up to
\* MaxUrls URLs, and lists longer than max_concurrent_clones
CloneLists ==
  UNION {[1..n -> Urls] : n \in 0..MaxUrls}
  \cup {[i \in 1..n |-> ((i - 1) % MaxUrls) + 1] :
          n \in (max_concurrent_clones + 1)..(max_concurrent_clones + MaxExtraClones)}

\* the RepositoryInfo of a clone
CloneInfo(repo_url) == [url |-> repo_url, build_system |-> "unknown"]

\* faulty variant: a clone that raises keeps its slot
ReleaseOnSuccess(value, raised) == IF raised THEN value ELSE value + 1

\* the exit of "async with semaphore", reached by the return and by the
\* raise alike
ReleaseOnExit(value, raised) == value + 1

\* the loop over the results of gather
RECURSIVE ClonedRepos(_, _, _)
ClonedRepos(task_results, i, cloned_repos) ==
  IF i > Len(task_results) THEN cloned_repos
  ELSE ClonedRepos(task_results, i + 1,
                   IF IsException(task_results[i]) THEN cloned_repos
                   ELSE Put(cloned_repos, task_results[i].url, task_results[i]))

\* clone_repositories up to its await: the semaphore and one task per URL
CloneStart(repository_urls) ==
  /\ clone.where = "none"
  /\ clone' = [NoClone EXCEPT
                 !.where = "gather",
                 !.repository_urls = repository_urls,
                 !.semaphore = max_concurrent_clones,
                 !.tasks = [i \in 1..Len(repository_urls) |->
                              [state |-> "pending", result |-> None]]]
  /\ UNCHANGED <<unit, unit_result, call, call_result, idl_scan, scan_vars,
                 job_vars, discovery, repository_cache>>

\* _clone_single_repository enters "async with semaphore" and calls
\* git.Repo.clone_from.  The tasks start in the order gather created them,
\* and the call blocks the event loop: no other task runs during a clone.
CloneBegin(i) ==
  /\ clone.where = "gather"
  /\ clone.tasks[i].state = "pending"
  /\ \A j \in 1..(i - 1) : clone.tasks[j].state # "pending"
  /\ \A j \in 1..Len(clone.tasks) : clone.tasks[j].state # "cloning"
  /\ SlotFree(clone.semaphore)
  /\ clone' = [clone EXCEPT !.semaphore = @ - 1, !.tasks[i].state = "cloning"]
  /\ UNCHANGED <<unit, unit_result, call, call_result, idl_scan, scan_vars,
                 job_vars, discovery, repository_cache>>

\* git.Repo.clone_from returns, and the clone is cached and returned, or it
\* raises, and the exception is raised again; the semaphore is left
CloneEnd(i) ==
  /\ clone.where = "gather"
  /\ clone.tasks[i].state = "cloning"
  /\ LET repo_url == clone.repository_urls[i] IN
     \/ /\ clone' = [clone EXCEPT
                        !.semaphore = ReleaseOnExit(@, FALSE),
                        !.tasks[i] = [state |-> "done", result |-> CloneInfo(repo_url)]]
        /\ repository_cache' = Put(repository_cache, repo_url, CloneInfo(repo_url))
     \/ /\ clone' = [clone EXCEPT
                        !.semaphore = ReleaseOnExit(@, TRUE),
                        !.tasks[i] = [state |-> "done",
                                      result |-> Raise("GitCommandError")]]
        /\ UNCHANGED repository_cache
  /\ UNCHANGED <<unit, unit_result, call, call_result, idl_scan, scan_vars,
                 job_vars, discovery>>

\* gather returns and clone_repositories returns cloned_repos
CloneReturn ==
  /\ clone.where = "gather"
  /\ Gathered(clone.tasks)
  /\ clone' = [clone EXCEPT
                 !.where = "done",
                 !.cloned_repos =
                    ClonedRepos([i \in 1..Len(clone.tasks) |-> clone.tasks[i].result],
                                1, EmptyDict)]
  /\ UNCHANGED <<unit, unit_result, call, call_result, idl_scan, scan_vars,
                 job_vars, discovery, repository_cache>>

CloneStep == \E i \in 1..Len(clone.tasks) : CloneBegin(i) \/ CloneEnd(i)

NextClone ==
  \/ \E repository_urls \in CloneLists : CloneStart(repository_urls)
  \/ \E i \in 1..Len(clone.tasks) : CloneBegin(i)
  \/ \E i \in 1..Len(clone.tasks) : CloneEnd(i)
  \/ CloneReturn

\* ---------------------------------------------------------------- the inputs
\* The Java files a repository may hold: a text and whether it can be read.
\*   <<CLSB>>           a class B, no method, no field
\*   <<CLSA, MTH, PAD>> a class LoginAction with one method and one field
\*   <<CLSA>>           a class LoginAction, no method, no field
\*   <<CLSA, MTH>>      _parse_java_content raises IndexError
\*   <<PKG, CLSB, PAD>> a class com.acme.B, no method, no field
\*   <<PKG>>            no type declaration
FileKinds ==
  [content : {<<"CLSB">>, <<"CLSA", "MTH", "PAD">>, <<"CLSA">>, <<"CLSA", "MTH">>,
              <<"PKG", "CLSB", "PAD">>, <<"PKG">>}, readable : {TRUE}]
  \cup [content : {<<"CLSB">>}, readable : {FALSE}]

\* rglob: the files of a repository, each with its own path (its position)
Enumerate(kinds) ==
  [i \in 1..Len(kinds) |->
     [path |-> i, content |-> kinds[i].content, readable |-> kinds[i].readable]]

\* the kinds of the files of a large repository: a class B, readable or not
LargeFileKinds == [content : {<<"CLSB">>}, readable : BOOLEAN]

\* repositories of up to MaxFiles files of any kinds, and repositories of more
\* files than the semaphore's value, all of one kind
Repositories ==
  {Enumerate(kinds) : kinds \in UNION {[1..n -> FileKinds] : n \in 0..MaxFiles}}
  \cup {Enumerate([i \in 1..n |-> kind]) :
          n \in (SemaphoreValue + 1)..(SemaphoreValue + MaxExtraFiles),
          kind \in LargeFileKinds}

\* the kinds of files whose text holds no block of blank lines
ShortFileKinds == {kind \in FileKinds : \A i \in 1..Len(kind.content) : kind.content[i] # "PAD"}

\* repositories of short files, for the scans whose every step is followed
PoolRepositories ==
  {Enumerate(kinds) : kinds \in UNION {[1..n -> ShortFileKinds] : n \in 0..MaxFiles}}
  \cup {Enumerate([i \in 1..n |-> kind]) :
          n \in (SemaphoreValue + 1)..(SemaphoreValue + MaxExtraFiles),
          kind \in LargeFileKinds}

\* the configuration documents and the IDL documents a repository may hold
DocumentLists ==
  { [configs |-> <<>>, idls |-> <<>>],
    [configs |-> <<ConfigLogin>>, idls |-> <<IdlPayment>>],
    [configs |-> <<ConfigLogin, ConfigBroken, ConfigOrder>>,
     idls |-> <<IdlPayment, IdlUnreadable, IdlAccount>>] }

\* the repositories scanned when one service scans several times
ServiceRepositories ==
  {Enumerate(kinds) : kinds \in {<<>>, <<[content |-> <<"CLSB">>, readable |-> TRUE]>>}}

\* ------------------------------------------------------------ specifications
Init ==
  /\ InitService
  /\ unit = NoUnit
  /\ unit_result = Pending
  /\ call = NoCall
  /\ call_result = Pending

TaskStep == \E i \in 1..Len(tasks) : Acquire(i) \/ Finish(i)

\* one scan of one repository
Next ==
  \/ returned = <<>> /\ \E files \in Repositories : StartScan(files)
  \/ \E i \in 1..Len(tasks) : Acquire(i)
  \/ \E i \in 1..Len(tasks) : Finish(i)
  \/ \E docs \in DocumentLists : Merge(docs.configs, docs.idls)
  \/ ParseIdl
  \/ ReturnResults

Spec == Init /\ [][Next]_vars

\* one scan of one repository of short files
NextPool ==
  \/ returned = <<>> /\ \E files \in PoolRepositories : StartScan(files)
  \/ \E i \in 1..Len(tasks) : Acquire(i)
  \/ \E i \in 1..Len(tasks) : Finish(i)
  \/ \E docs \in DocumentLists : Merge(docs.configs, docs.idls)
  \/ ParseIdl
  \/ ReturnResults

\* the event loop runs a task or the coordinator whenever one of them can
\* step, and every read of a file ends
FairSpec ==
  /\ Init /\ [][NextPool]_vars
  /\ WF_vars(TaskStep)
  /\ WF_vars(\E docs \in DocumentLists : Merge(docs.configs, docs.idls))
  /\ WF_vars(ParseIdl)
  /\ WF_vars(ReturnResults)

\* The task that runs parse_repository is cancelled while the coroutine waits:
\* in asyncio.gather, or in the read of an IDL document.  CancelledError is
\* raised at the await and, caught by nothing, leaves parse_repository; the
\* tasks of gather that have not returned are cancelled with it, and those
\* that hold the semaphore release it.
Cancel ==
  /\ \/ pc = "gather"
     \/ pc = "idl" /\ idl_done < Len(idl_files)
  /\ pc' = "cancelled"
  /\ tasks' = [i \in 1..Len(tasks) |->
                 IF tasks[i].state = "done" THEN tasks[i]
                 ELSE [state |-> "cancelled", result |-> None]]
  /\ semaphore' = semaphore
                    + Cardinality({i \in 1..Len(tasks) : tasks[i].state = "reading"})
  /\ UNCHANGED <<java_files, results, struts_configs, idl_files, idl_done,
                 struts_form_beans, returned, unit_vars>>

\* one scan of one repository of short files, which may be cancelled
NextCancel ==
  \/ returned = <<>> /\ \E files \in PoolRepositories : StartScan(files)
  \/ \E i \in 1..Len(tasks) : Acquire(i)
  \/ \E i \in 1..Len(tasks) : Finish(i)
  \/ \E docs \in DocumentLists : Merge(docs.configs, docs.idls)
  \/ ParseIdl
  \/ ReturnResults
  \/ Cancel

SpecCancel == Init /\ [][NextCancel]_vars

\* one call of discover_dependencies
SpecDiscover == Init /\ [][NextDiscover]_vars

\* discover_dependencies is one coroutine, and every clone and every
\* analysis it waits for returns or raises
FairSpecDiscover == SpecDiscover /\ WF_vars(NextDiscover)

\* one call of clone_repositories on a new service
SpecClone == Init /\ [][NextClone]_vars

\* the event loop runs a task or the coordinator whenever one of them can
\* step, and every clone returns or raises
FairSpecClone ==
  /\ SpecClone
  /\ WF_vars(CloneStep)
  /\ WF_vars(CloneReturn)

\* the routes of repositories.py and analysis.py and their background tasks
SpecJobs == Init /\ [][NextJobs]_vars

\* one service, scanning up to MaxScans times, one scan after the other
NextService ==
  \/ Len(returned) < MaxScans /\ \E files \in ServiceRepositories : StartScan(files)
  \/ \E i \in 1..Len(tasks) : Acquire(i)
  \/ \E i \in 1..Len(tasks) : Finish(i)
  \/ \E docs \in DocumentLists : Merge(docs.configs, docs.idls)
  \/ ParseIdl
  \/ ReturnResults

SpecService == Init /\ [][NextService]_vars

\* ------------------------------------------------------------------ claims
RECURSIVE SumOver(_, _)
SumOver(set, f) ==
  IF set = {} THEN 0
  ELSE LET x == CHOOSE y \in set : TRUE IN f[x] + SumOver(set \ {x}, f)

Reading == {i \in 1..Len(tasks) : tasks[i].state = "reading"}
Waiting == {i \in 1..Len(tasks) : tasks[i].state = "pending"}

\* parse_repository has returned the model of the repository java_files
ScanReturned == pc = "idle" /\ returned # <<>>

\* C1: at no time do more than SemaphoreValue (10) parse tasks hold the
\* semaphore, and a task waits exactly as long as SemaphoreValue others hold it:
\* the value of the semaphore is what the tasks in flight leave of it.
C1_ConcurrencyBound ==
  /\ Cardinality(Reading) <= SemaphoreValue
  /\ (pc = "gather" => semaphore = SemaphoreValue - Cardinality(Reading))

\* C1 witness: the semaphore is exhausted and a further task waits for it
C1_Witness == Cardinality(Reading) = SemaphoreValue /\ Waiting # {}

\* C2 (as claimed): in a returned model total_methods and total_fields are the
\* sums of len(methods) and len(fields) over the entries of classes.
C2_TotalsEqualSums ==
  \A k \in 1..Len(returned) :
    LET model == returned[k]
        keys == DOMAIN model.classes
    IN /\ model.statistics.total_methods =
            SumOver(keys, [q \in keys |-> Len(model.classes[q].methods)])
       /\ model.statistics.total_fields =
            SumOver(keys, [q \in keys |-> Len(model.classes[q].fields)])

\* the files of java_files that parse to a class
Parsed(i) == parse_java_file(java_files[i])
Successes == {i \in 1..Len(java_files) : Parsed(i) # None}
Unreadable == {i \in 1..Len(java_files) : ~java_files[i].readable}

\* every file holds a type declaration that parses, and no two files the same
\* qualified name
DistinctTypes ==
  LET typeOf(i) == parse_java_file([java_files[i] EXCEPT !.readable = TRUE])
  IN /\ \A i \in 1..Len(java_files) : typeOf(i) # None
     /\ \A i, j \in 1..Len(java_files) :
          i # j => typeOf(i).qualified_name # typeOf(j).qualified_name

C4_ScanCompletes ==
  (pc = "gather") ~>
     (/\ ScanReturned
      /\ \A i \in 1..Len(tasks) : tasks[i].state = "done"
      /\ semaphore = SemaphoreValue)

\* C4 witness: a scan of more files than the semaphore admits, all of them
\* failing, has returned
C4_Witness ==
  /\ ScanReturned
  /\ Len(java_files) > SemaphoreValue
  /\ Successes = {}

\* what a caller reads in a model it was given
View(model) ==
  [model EXCEPT !.struts_form_beans =
     IF @ = SelfFormBeans THEN struts_form_beans ELSE @.val]

\* C5 (as claimed): once parse_repository has returned a model, no later scan
\* changes any of its maps.
C5_ReturnedModelUnchanged ==
  [][\A k \in 1..Len(returned) : View(returned[k])' = View(returned[k])]_vars

\* C6: no step of a parse task writes the results dict, and its classes and
\* its method and field totals change only when every parse task has returned.
C6_CoordinatorOnlyMerge ==
  [][/\ TaskStep => results' = results
     /\ (\/ results'.classes # results.classes
         \/ results'.statistics.total_methods # results.statistics.total_methods
         \/ results'.statistics.total_fields # results.statistics.total_fields)
        => \A i \in 1..Len(tasks) : tasks[i].state = "done"]_vars

\* C6 witness: the merge has put the classes of two files into the dict
C6_Witness ==
  /\ pc = "idl"
  /\ Cardinality(DOMAIN results.classes) >= 2

\* the last file of the enumeration that parses to the qualified name q
LastWriter(q) ==
  CHOOSE i \in Successes :
    /\ Parsed(i).qualified_name = q
    /\ \A j \in Successes : Parsed(j).qualified_name = q => j <= i

\* C7: the returned classes and statistics are a function of the enumeration
\* alone, whatever the order in which the tasks ended: one entry for every
\* qualified name that some file yields, the entry of the last such file.
C7_OrderIndependent ==
  ScanReturned =>
    /\ DOMAIN results.classes = {Parsed(i).qualified_name : i \in Successes}
    /\ \A q \in DOMAIN results.classes : results.classes[q] = Parsed(LastWriter(q))
    /\ results.statistics.struts_actions =
         Cardinality({i \in Successes : Parsed(i).is_struts_action})
    /\ results.statistics.corba_servants =
         Cardinality({i \in Successes : Parsed(i).is_corba_servant})

\* C7 witness: two files yield the same qualified name with different members
C7_Witness ==
  /\ ScanReturned
  /\ \E i, j \in Successes :
       /\ i < j
       /\ Parsed(i).qualified_name = Parsed(j).qualified_name
       /\ Parsed(i).methods # Parsed(j).methods

\* C8: java_files counts every enumerated file; total_methods and total_fields
\* count the members of the files that parsed, and a file that did not parse
\* has no entry in classes.
C8_FilesSeenAndTotals ==
  ScanReturned =>
    /\ results.statistics.java_files = Len(java_files)
    /\ results.statistics.total_methods =
         SumOver(Successes, [i \in Successes |-> Len(Parsed(i).methods)])
    /\ results.statistics.total_fields =
         SumOver(Successes, [i \in Successes |-> Len(Parsed(i).fields)])
    /\ \A q \in DOMAIN results.classes :
         \E i \in Successes : results.classes[q].file_path = java_files[i].path

\* C8 witness: three files, the second unreadable, the others with members
C8_Witness ==
  /\ ScanReturned
  /\ Len(java_files) = 3
  /\ Unreadable = {2}
  /\ results.statistics.total_methods = 2

JavaClassFields ==
  {"name", "qualified_name", "type", "package", "modifiers", "annotations",
   "extends", "implements", "methods", "fields", "inner_classes", "imports",
   "line_number", "file_path", "is_struts_action", "is_corba_servant",
   "is_corba_helper"}

\* the matches that a type declaration of the text is made of
AcceptedMethods(text) ==
  SelectSeq(Matches(text, "methods"),
            LAMBDA m : m.return_type \notin {"class", "interface", "enum"})

\* C9: parse_java_file returns None or a whole JavaClass, never an exception
\* and never a class that lacks some of the members matched in the text; a
\* text without a type declaration gives None.
C9_WholeOrNone ==
  unit_result # Pending =>
    /\ \/ unit_result = None
       \/ /\ DOMAIN unit_result = JavaClassFields
          /\ unit.readable
          /\ unit_result.package \in {"", "com.acme", "org.other"}
          /\ (unit_result.package = "") = (Groups(unit.content, "package") = <<>>)
          /\ unit_result.imports = Groups(unit.content, "imports")
          /\ Len(unit_result.methods) = Len(AcceptedMethods(unit.content))
          /\ Len(unit_result.fields) = Len(Matches(unit.content, "fields"))
    /\ Matches(unit.content, "cls") = <<>> => unit_result = None

\* C9 witness: a unit parsed to a class with members, and (see C10) a unit
\* whose parse raised gives None
C9_Witness ==
  /\ unit_result # Pending /\ unit_result # None
  /\ unit_result.methods # <<>>

\* the text holds a package declaration, a class that extends Action and a
\* method named execute
ActionUnit(text) ==
  /\ Groups(text, "package") # <<>>
  /\ Matches(text, "cls") # <<>>
  /\ Matches(text, "cls")[1].extends = "Action"
  /\ \E i \in 1..Len(AcceptedMethods(text)) : AcceptedMethods(text)[i].name = "execute"

\* C10 (as claimed): such a unit parses to a class, with the qualified name
\* package.name, that is a Struts action with an execute action method.
C10_ActionUnitParsed ==
  (unit_result # Pending /\ unit.readable /\ ActionUnit(unit.content)) =>
    /\ unit_result # None
    /\ unit_result.qualified_name = "com.acme.LoginAction"
    /\ unit_result.type = "class"
    /\ unit_result.is_struts_action
    /\ \E i \in 1..Len(unit_result.methods) :
         /\ unit_result.methods[i].name = "execute"
         /\ unit_result.methods[i].is_struts_action

\* lineCount(sourceText): the lines that content.split gives
LineCount(text) == Len(SplitLines(text))

\* C11: in every parsed class, the line number of every method and of every
\* field is at least 1 and at most the number of lines of the text.
C11_SourceLineInRange ==
  (unit_result # Pending /\ unit_result # None) =>
    /\ \A i \in 1..Len(unit_result.methods) :
         /\ 1 <= unit_result.methods[i].line_number
         /\ unit_result.methods[i].line_number <= LineCount(unit.content)
    /\ \A i \in 1..Len(unit_result.fields) :
         /\ 1 <= unit_result.fields[i].line_number
         /\ unit_result.fields[i].line_number <= LineCount(unit.content)

\* C11 witness: a parsed class with a method and a field below the first line
C11_Witness ==
  /\ unit_result # Pending /\ unit_result # None
  /\ \E i \in 1..Len(unit_result.methods) : unit_result.methods[i].line_number > 1
  /\ \E i \in 1..Len(unit_result.fields) : unit_result.fields[i].line_number > 1

\* C13 (as claimed): in every parsed class, each modifier flag of a field is
\* true exactly when that keyword stands in the field's declaration, and the
\* initial value is the stripped initializer, None without an initializer.
C13_FieldModifiersAndInitial ==
  (unit_result # Pending /\ unit_result # None) =>
    \A i \in 1..Len(unit_result.fields) :
      LET declared == Matches(unit.content, "fields")[i]
          field == unit_result.fields[i]
      IN /\ \A keyword \in DOMAIN DefaultModifier :
              field.modifiers[keyword] = (keyword \in declared.keywords)
         /\ field.initial_value =
              (IF declared.initial = <<>> THEN NoneStr ELSE Strip(declared.initial))

\* the elements of a document that are actions: both tags are accepted
ActionElements(doc) ==
  SelectSeq(doc.elements, LAMBDA e : e.tag \in {"action-mapping", "action"})

\* the forwards of an element as the claim has them: every name mapped to the
\* path of the last forward of that name
LastForwards(e) ==
  [name \in {e.forwards[k].name : k \in 1..Len(e.forwards)} |->
     LET last == CHOOSE k \in 1..Len(e.forwards) :
                   /\ e.forwards[k].name = name
                   /\ \A j \in 1..Len(e.forwards) : e.forwards[j].name = name => j <= k
     IN e.forwards[last].path]

\* C14 (as claimed): for a well-formed document, every action element with a
\* non-empty path has a mapping under that path, with the type and the
\* forwards (last forward of a name wins) of an element of that path, and
\* elements without a non-empty path give no mapping.
C14_MappingPerAction ==
  (call.op = "parse_struts_config" /\ call_result # Pending /\ call.arg.wellformed) =>
    LET actions == ActionElements(call.arg)
        withPath == {i \in 1..Len(actions) : Truthy(actions[i].path)}
    IN /\ DOMAIN call_result.val = {actions[i].path : i \in withPath}
       /\ \A path \in DOMAIN call_result.val :
            /\ call_result.val[path].path = path
            /\ \E i \in withPath :
                 /\ actions[i].path = path
                 /\ call_result.val[path].type = actions[i].type
                 /\ call_result.val[path].forwards = LastForwards(actions[i])

\* the document declares the module Payment and in it, once, the interface
\* PaymentService with the operation charge: on three lines in this order
\* with no closing line in between, or all on one line as in Scenario C
DeclaresPaymentService(lines) ==
  /\ Cardinality({i \in 1..Len(lines) : IdlLine[lines[i]].interface # <<>>}) = 1
  /\ \/ \E i \in 1..Len(lines) : lines[i] = "ONELINE"
     \/ \E i, j, k \in 1..Len(lines) :
          /\ i < j /\ j < k
          /\ lines[i] = "MODULE" /\ lines[j] = "IFACE" /\ lines[k] = "OP"
          /\ \A n \in (i + 1)..(k - 1) : lines[n] # "CLOSE"

\* C15 (as claimed): such a document parses to the interface PaymentService
\* of the module Payment, with the operation charge among its operations.
C15_ModuleInterfaceOperation ==
  (/\ call.op = "parse_corba_idl" /\ call_result # Pending
   /\ call.arg.readable /\ DeclaresPaymentService(call.arg.lines)) =>
    /\ "PaymentService" \in DOMAIN call_result.val
    /\ call_result.val["PaymentService"].name = "PaymentService"
    /\ call_result.val["PaymentService"].module = "Payment"
    /\ \E n \in 1..Len(call_result.val["PaymentService"].operations) :
         call_result.val["PaymentService"].operations[n] =
           [name |-> "charge", return_type |-> "float", parameters |-> "in string id"]

\* the mappings, the form beans and the interfaces of the documents that
\* parse, merged in the order of the enumeration
RECURSIVE GoodConfigs(_, _)
GoodConfigs(configs, merged) ==
  IF configs = <<>> THEN merged
  ELSE LET doc == Head(configs)
           both == FindAll(doc, "action-mapping")
           actions == IF both # <<>> THEN both ELSE FindAll(doc, "action")
       IN GoodConfigs(Tail(configs),
            IF doc.wellformed
            THEN [mappings |-> Update(merged.mappings, ActionMappings(actions, EmptyDict)),
                  beans |-> FormBeans(FindAll(doc, "form-bean"), merged.beans)]
            ELSE merged)

RECURSIVE GoodIdls(_, _)
GoodIdls(idls, merged) ==
  IF idls = <<>> THEN merged
  ELSE GoodIdls(Tail(idls),
                IF Head(idls).readable
                THEN Update(merged, IdlScan(Head(idls).lines, 0, "", EmptyDict))
                ELSE merged)

\* C16: a configuration document or an IDL document that is malformed or
\* cannot be read adds nothing and raises nothing: once the documents are
\* merged, the mappings, the form beans and the interfaces are those of the
\* other documents, those before and those after it in the enumeration.
C16_BrokenDocumentIsolated ==
  (pc = "idl" \/ ScanReturned) =>
    LET good == GoodConfigs(struts_configs, [mappings |-> EmptyDict, beans |-> EmptyDict])
    IN /\ results.struts_mappings = good.mappings
       /\ struts_form_beans = good.beans
       /\ results.corba_interfaces =
            GoodIdls(SubSeq(idl_files, 1, IF pc = "idl" THEN idl_done ELSE Len(idl_files)),
                     EmptyDict)

\* C16 witness: a scan has returned whose second configuration document was
\* malformed and whose second IDL document could not be read, with the
\* entries of the documents around them
C16_Witness ==
  /\ ScanReturned
  /\ Len(struts_configs) = 3 /\ ~struts_configs[2].wellformed
  /\ Len(idl_files) = 3 /\ ~idl_files[2].readable
  /\ DOMAIN results.struts_mappings = {"/login", "/order"}
  /\ DOMAIN results.corba_interfaces = {"PaymentService", "AccountService"}

\* C17: in every parsed class, the package is that of the first package
\* declaration of the text ("" without one), the name that of the first type
\* declaration, and the qualified name is the name when the package is empty
\* and package.name otherwise.
C17_QualifiedName ==
  (unit_result # Pending /\ unit_result # None) =>
    LET packages == Groups(unit.content, "package")
        simpleName == Matches(unit.content, "cls")[1].name
    IN /\ unit_result.name = simpleName
       /\ packages = <<>> =>
            /\ unit_result.package = ""
            /\ unit_result.qualified_name = simpleName
       /\ packages # <<>> =>
            /\ unit_result.package = packages[1]
            /\ unit_result.qualified_name = packages[1] \o "." \o simpleName

\* C17 witness: a class parsed from a text with two package declarations and
\* two type declarations
C17_Witness ==
  /\ unit_result # Pending /\ unit_result # None
  /\ Len(Groups(unit.content, "package")) = 2
  /\ Groups(unit.content, "package")[1] # Groups(unit.content, "package")[2]
  /\ Len(Matches(unit.content, "cls")) = 2
  /\ Matches(unit.content, "cls")[1].name # Matches(unit.content, "cls")[2].name

\* the annotations the claim attributes to a declaration at offset p: the
\* walk of _parse_annotations_before_line, started at the line that holds p
AnnotationsAbove(text, p) ==
  AnnotationWalk(SplitLines(text), NewlinesBefore(text, p), <<>>).val

\* C18 (as claimed): in every parsed class, the annotations of the class, of
\* every method and of every field are the annotation tokens of the
\* consecutive annotation lines directly above the line of the declaration
\* (blank and comment lines skipped), from top to bottom.
C18_AnnotationsAboveDeclaration ==
  (unit_result # Pending /\ unit_result # None) =>
    LET text == unit.content IN
    /\ unit_result.annotations = AnnotationsAbove(text, Matches(text, "cls")[1].off)
    /\ \A i \in 1..Len(unit_result.methods) :
         unit_result.methods[i].annotations =
           AnnotationsAbove(text, AcceptedMethods(text)[i].off)
    /\ \A i \in 1..Len(unit_result.fields) :
         unit_result.fields[i].annotations =
           AnnotationsAbove(text, Matches(text, "fields")[i].off)

\* the fragment is a parameter as Java writes it: its last two words, the
\* type and the name, do not start with "@"
NameAndType(fragment) ==
  LET words == SplitWords(fragment, <<>>) IN
  /\ Len(words) >= 2
  /\ ~StartsWithAt(words[Len(words)])
  /\ ~StartsWithAt(words[Len(words) - 1])

\* the parameter the claim gives for a fragment: the name is the last word,
\* the type the word before it, and the words that start with "@" are its
\* annotations
ClaimedParameter(fragment) ==
  LET words == SplitWords(fragment, <<>>) IN
  IF Len(words) >= 2
  THEN << [name |-> Join(words[Len(words)]),
           type |-> Join(words[Len(words) - 1]),
           annotations |-> Joined(SelectSeq(words, StartsWithAt))] >>
  ELSE <<>>

\* C19 (as claimed): for a parameter list whose every fragment is a parameter
\* with a type and a name (or has less than two words and is none), the
\* parameters are, fragment by fragment, the ones the claim gives.
C19_ParameterNameAndType ==
  (call.op = "_parse_parameters" /\ call_result # Pending) =>
    LET fragments == IF IsBlank(call.arg) THEN <<>> ELSE SplitParams(call.arg, <<>>, 0)
    IN (\A i \in 1..Len(fragments) :
          \/ Len(SplitWords(fragments[i], <<>>)) < 2
          \/ NameAndType(fragments[i]))
       => [i \in 1..Len(call_result.val) |->
             [name |-> call_result.val[i].name, type |-> call_result.val[i].type,
              annotations |-> call_result.val[i].annotations]]
          = Flatten([i \in 1..Len(fragments) |-> ClaimedParameter(fragments[i])])

\* the implements clause split as the claim has it: at the commas outside
\* angle brackets only, each name stripped
SplitAtDepthZero(clause) ==
  LET names == SplitParams(clause, <<>>, 0)
  IN [i \in 1..Len(names) |-> Strip(names[i])]

\* C20 (as claimed): in every parsed class, implements is the implements
\* clause of the first type declaration split at the commas of bracket depth
\* zero, in order and stripped.
C20_ImplementsDepthZero ==
  (unit_result # Pending /\ unit_result # None) =>
    unit_result.implements =
      SplitAtDepthZero(Matches(unit.content, "cls")[1].implements_str)

\* the number of tokens t in a token sequence
Count(tokens, t) == Len(SelectSeq(tokens, LAMBDA x : x = t))

\* more "<" than ">" or the reverse
Unbalanced(tokens) == Count(tokens, "<") # Count(tokens, ">")

\* a split of a token sequence at every comma
RECURSIVE SplitEveryComma(_, _)
SplitEveryComma(tokens, current) ==
  IF tokens = <<>> THEN <<current>>
  ELSE IF Head(tokens) = ","
       THEN <<current>> \o SplitEveryComma(Tail(tokens), <<>>)
       ELSE SplitEveryComma(Tail(tokens), Append(current, Head(tokens)))

\* C21 (as claimed): a parameter list with unbalanced angle brackets is split
\* at every comma, a balanced one at the commas of bracket depth zero, and
\* the parameters are read from the fragments of that split.
C21_NaiveSplitWhenUnbalanced ==
  (call.op = "_parse_parameters" /\ call_result # Pending /\ ~IsBlank(call.arg)) =>
    LET fragments == IF Unbalanced(call.arg)
                     THEN SplitEveryComma(call.arg, <<>>)
                     ELSE SplitParams(call.arg, <<>>, 0)
    IN call_result.val =
         Flatten([i \in 1..Len(fragments) |-> ParseOneParameter(fragments[i])])

\* C22 (as claimed): in a well-formed document, every element tagged
\* action-mapping and every element tagged action that has a non-empty path
\* has a mapping under its path, also when the document holds both tags.
C22_BothTagsProcessed ==
  (call.op = "parse_struts_config" /\ call_result # Pending /\ call.arg.wellformed) =>
    \A i \in 1..Len(call.arg.elements) :
      LET e == call.arg.elements[i] IN
      (e.tag \in {"action-mapping", "action"} /\ Truthy(e.path))
        => e.path \in DOMAIN call_result.val

\* the line k (1-based) of a document is an `interface Name` line
InterfaceLine(lines, k) ==
  IdlLine[lines[k]].starts_interface /\ IdlLine[lines[k]].interface # <<>>

\* the first line after line k whose trimmed content starts with "}", or the
\* line after the last one when there is none
BlockEnd(lines, k) ==
  IF \E c \in (k + 1)..Len(lines) : IdlLine[lines[c]].closes
  THEN CHOOSE c \in (k + 1)..Len(lines) :
         /\ IdlLine[lines[c]].closes
         /\ \A d \in (k + 1)..(c - 1) : ~IdlLine[lines[d]].closes
  ELSE Len(lines) + 1

\* the interface lines that open a block, from line p on: an interface line
\* outside a block opens one, and the search goes on after the block's end
RECURSIVE Openers(_, _)
Openers(lines, p) ==
  IF p > Len(lines) THEN {}
  ELSE IF InterfaceLine(lines, p)
       THEN {p} \cup Openers(lines, BlockEnd(lines, p) + 1)
       ELSE Openers(lines, p + 1)

\* the operations and the attributes of the lines from to .. to, in textual
\* order: an operation line has "(" and ")", an attribute line has not and
\* holds the word attribute
RECURSIVE OperationsOf(_, _, _)
OperationsOf(lines, from, to) ==
  IF from > to THEN <<>>
  ELSE (IF IdlLine[lines[from]].parens THEN IdlLine[lines[from]].operation ELSE <<>>)
       \o OperationsOf(lines, from + 1, to)

RECURSIVE AttributesOf(_, _, _)
AttributesOf(lines, from, to) ==
  IF from > to THEN <<>>
  ELSE (IF ~IdlLine[lines[from]].parens /\ IdlLine[lines[from]].has_attribute
        THEN IdlLine[lines[from]].attribute ELSE <<>>)
       \o AttributesOf(lines, from + 1, to)

\* C23: the interfaces returned for a readable document are those of the
\* blocks opened at interface lines, and the interface of a name has the
\* operations and the attributes, in textual order, of exactly the lines
\* between the line that opened its last block and the first following line
\* that starts with "}" (or the end of the document).
C23_BlockEndsAtFirstClose ==
  (call.op = "parse_corba_idl" /\ idl_scan.where = "done" /\ call.arg.readable) =>
    LET lines == call.arg.lines
        opened == Openers(lines, 1)
        Name(k) == IdlLine[lines[k]].interface[1].name
    IN /\ DOMAIN call_result.val = {Name(k) : k \in opened}
       /\ \A k \in opened :
            (\A j \in opened : Name(j) = Name(k) => j <= k) =>
              /\ call_result.val[Name(k)].operations =
                   OperationsOf(lines, k + 1, BlockEnd(lines, k) - 1)
              /\ call_result.val[Name(k)].attributes =
                   AttributesOf(lines, k + 1, BlockEnd(lines, k) - 1)

\* C23 witness: a scan has returned an interface with an operation from its
\* block, and the document has an operation line after the block's closing
\* line
C23_Witness ==
  /\ call.op = "parse_corba_idl" /\ idl_scan.where = "done" /\ call.arg.readable
  /\ \E k \in Openers(call.arg.lines, 1) :
       /\ BlockEnd(call.arg.lines, k) <= Len(call.arg.lines)
       /\ OperationsOf(call.arg.lines, k + 1, BlockEnd(call.arg.lines, k) - 1) # <<>>
       /\ OperationsOf(call.arg.lines, BlockEnd(call.arg.lines, k) + 1,
                       Len(call.arg.lines)) # <<>>
       /\ Len(call_result.val[IdlLine[call.arg.lines[k]].interface[1].name].operations) = 1

\* C30: the scan of every document ends; every pass of the outer and of the
\* inner loop moves the line index forward by one line and no step moves it
\* back; and an interface whose block has no closing line is returned with
\* the operations and attributes of all the lines up to the end of the
\* document.
C30_ScanTerminates ==
  /\ <>(call_result # Pending)
  /\ [][/\ idl_scan'.i >= idl_scan.i
        /\ (idl_scan.where \in {"outer", "inner"} /\ idl_scan'.where # "done")
             => idl_scan'.i = idl_scan.i + 1]_vars
  /\ [](idl_scan.where = "done" /\ call.arg.readable =>
          \A k \in Openers(call.arg.lines, 1) :
            BlockEnd(call.arg.lines, k) > Len(call.arg.lines) =>
              LET name == IdlLine[call.arg.lines[k]].interface[1].name IN
              /\ name \in DOMAIN call_result.val
              /\ call_result.val[name].operations =
                   OperationsOf(call.arg.lines, k + 1, Len(call.arg.lines))
              /\ call_result.val[name].attributes =
                   AttributesOf(call.arg.lines, k + 1, Len(call.arg.lines)))

\* C30 witness: a scan has returned an interface whose block has no closing
\* line, with an operation found in it, the line index past the last line
C30_Witness ==
  /\ idl_scan.where = "done" /\ call.arg.readable
  /\ idl_scan.i = Len(call.arg.lines) + 1
  /\ \E k \in Openers(call.arg.lines, 1) :
       /\ BlockEnd(call.arg.lines, k) > Len(call.arg.lines)
       /\ call_result.val[IdlLine[call.arg.lines[k]].interface[1].name].operations # <<>>

\* what the d-th configuration document and the d-th IDL document of the scan
\* hold on their own
MappingsOf(d) == parse_struts_config(struts_configs[d], EmptyDict).mappings
BeansOf(d) == parse_struts_config(struts_configs[d], EmptyDict).struts_form_beans
InterfacesOf(d) == parse_corba_idl(idl_files[d])

\* the keys of the first n documents and, for a key, the last of them that
\* holds it
KeysOf(n, Holds(_)) == UNION {DOMAIN Holds(d) : d \in 1..n}
LastWith(n, Holds(_), key) ==
  CHOOSE d \in 1..n :
    /\ key \in DOMAIN Holds(d)
    /\ \A e \in (d + 1)..n : key \notin DOMAIN Holds(e)

\* the number of IDL documents merged so far
IdlMerged == IF pc = "idl" THEN idl_done ELSE Len(idl_files)

\* C24: once documents are merged, the mappings, the form beans and the
\* interfaces hold one entry for every key of the merged documents, the entry
\* of the last document that has the key; and merging an IDL document leaves
\* the interfaces of the names it does not declare as they were.
C24_LaterDocumentOverwrites ==
  /\ []((pc = "idl" \/ ScanReturned) =>
         /\ DOMAIN results.struts_mappings = KeysOf(Len(struts_configs), MappingsOf)
         /\ \A path \in DOMAIN results.struts_mappings :
              results.struts_mappings[path] =
                MappingsOf(LastWith(Len(struts_configs), MappingsOf, path))[path]
         /\ DOMAIN struts_form_beans = KeysOf(Len(struts_configs), BeansOf)
         /\ \A name \in DOMAIN struts_form_beans :
              struts_form_beans[name] =
                BeansOf(LastWith(Len(struts_configs), BeansOf, name))[name]
         /\ DOMAIN results.corba_interfaces = KeysOf(IdlMerged, InterfacesOf)
         /\ \A name \in DOMAIN results.corba_interfaces :
              results.corba_interfaces[name] =
                InterfacesOf(LastWith(IdlMerged, InterfacesOf, name))[name])
  /\ [][(pc = "idl" /\ idl_done' = idl_done + 1) =>
          \A name \in DOMAIN results.corba_interfaces :
            name \notin DOMAIN InterfacesOf(idl_done + 1) =>
              /\ name \in DOMAIN results'.corba_interfaces
              /\ results'.corba_interfaces[name] = results.corba_interfaces[name]]_vars

\* C24 witness: a scan has returned in which a path, a form bean and an
\* interface were each declared by two documents, with different entries
C24_Witness ==
  /\ ScanReturned
  /\ \E d, e \in 1..Len(struts_configs) :
       /\ d < e
       /\ \E path \in DOMAIN MappingsOf(d) \cap DOMAIN MappingsOf(e) :
            MappingsOf(d)[path] # MappingsOf(e)[path]
       /\ \E name \in DOMAIN BeansOf(d) \cap DOMAIN BeansOf(e) :
            BeansOf(d)[name] # BeansOf(e)[name]
  /\ \E d, e \in 1..Len(idl_files) :
       /\ d < e
       /\ \E name \in DOMAIN InterfacesOf(d) \cap DOMAIN InterfacesOf(e) :
            InterfacesOf(d)[name] # InterfacesOf(e)[name]
  /\ DOMAIN results.corba_interfaces = {"PaymentService", "AccountService"}

\* the files whose parse had returned a class when the scan was cancelled
ParsedAtCancel ==
  {i \in 1..Len(tasks) :
     tasks[i].state = "done" /\ tasks[i].result # None /\ ~IsException(tasks[i].result)}

\* C25 (as claimed): after a cancellation the aggregate of the scan holds the
\* classes of exactly the files parsed up to then, and its totals of methods
\* and fields are the sums over these classes.
C25_CancelledScanHoldsPartialResults ==
  pc = "cancelled" =>
    /\ DOMAIN results.classes = {tasks[i].result.qualified_name : i \in ParsedAtCancel}
    /\ results.statistics.total_methods =
         SumOver(DOMAIN results.classes,
                 [q \in DOMAIN results.classes |-> Len(results.classes[q].methods)])
    /\ results.statistics.total_fields =
         SumOver(DOMAIN results.classes,
                 [q \in DOMAIN results.classes |-> Len(results.classes[q].fields)])

\* C26 (as claimed): the status of a job of active_jobs or analysis_jobs that
\* is CANCELLED, COMPLETED or FAILED never changes again.
C26_FinishedStatusStable ==
  [][/\ \A job_id \in DOMAIN active_jobs :
          active_jobs[job_id].status \in Finished =>
            active_jobs'[job_id].status = active_jobs[job_id].status
     /\ \A job_id \in DOMAIN analysis_jobs :
          analysis_jobs[job_id].status \in Finished =>
            analysis_jobs'[job_id].status = analysis_jobs[job_id].status]_vars

\* the URLs reachable from a set of URLs through the repositories whose
\* analysis succeeded
RECURSIVE Reachable(_)
Reachable(set) ==
  LET further == set \cup UNION {discovery.edges[u] : u \in set \ discovery.failed}
  IN IF further = set THEN set ELSE Reachable(further)

\* a list without a repeated element
NoRepeat(s) == \A i, j \in 1..Len(s) : i # j => s[i] # s[j]

\* C27: discover_dependencies returns for every dependency graph; no
\* repository is analysed twice; the queue never holds a URL twice nor a
\* processed URL; and the list returned holds, once each, exactly the URLs
\* reachable from the starting URL through the repositories whose analysis
\* succeeded, whichever analyses failed.
C27_DiscoveryTerminates ==
  /\ (discovery.where = "loop") ~> (discovery.where = "done")
  /\ [](/\ NoRepeat(discovery.analysed)
        /\ NoRepeat(discovery.to_process)
        /\ Range(discovery.to_process) \cap discovery.processed = {})
  /\ [](discovery.where = "done" =>
          /\ NoRepeat(discovery.result)
          /\ Range(discovery.result) = Reachable({discovery.start}))

\* C27 witness: a discovery has returned three URLs from a graph with a
\* cycle through the starting URL, a URL resolved by two repositories and
\* a repository whose analysis failed
C27_Witness ==
  /\ discovery.where = "done"
  /\ Len(discovery.result) = 3
  /\ discovery.failed # {}
  /\ \E u \in Urls \ {discovery.start} : discovery.start \in discovery.edges[u]
  /\ \E u, v \in Urls : u # v /\ v \in discovery.edges[discovery.start]
                                /\ v \in discovery.edges[u]

\* the tasks of clone_repositories that clone, and the URLs cloned
Cloning == {i \in 1..Len(clone.tasks) : clone.tasks[i].state = "cloning"}
ClonedUrls ==
  {clone.repository_urls[i] : i \in {j \in 1..Len(clone.tasks) :
     clone.tasks[j].state = "done" /\ ~IsException(clone.tasks[j].result)}}

\* C28: at no time do more than max_concurrent_clones tasks clone; a call of
\* clone_repositories returns, with every URL attempted and every slot of
\* the semaphore free again, whichever clones fail; and the mapping it
\* returns and repository_cache hold exactly the URLs of which a clone
\* succeeded.
C28_CloneBounded ==
  /\ [](Cardinality(Cloning) <= max_concurrent_clones)
  /\ (clone.where = "gather") ~> (clone.where = "done")
  /\ [](clone.where = "done" =>
          /\ \A i \in 1..Len(clone.tasks) : clone.tasks[i].state = "done"
          /\ clone.semaphore = max_concurrent_clones
          /\ DOMAIN clone.cloned_repos = ClonedUrls
          /\ DOMAIN repository_cache = ClonedUrls)

\* C28 witness: a call with more URLs than max_concurrent_clones has
\* returned, more than max_concurrent_clones of its clones failed and one
\* succeeded
C28_Witness ==
  /\ clone.where = "done"
  /\ Len(clone.repository_urls) > max_concurrent_clones
  /\ Cardinality({i \in 1..Len(clone.tasks) : IsException(clone.tasks[i].result)})
       >= max_concurrent_clones
  /\ ClonedUrls # {}

\* C29 (as claimed): in every returned model struts_actions is the number of
\* entries of classes that are action classes and corba_servants the number
\* of entries that are servants, and no class parsed by a task of the scan is
\* both a servant and a helper.
C29_CountsEqualEntries ==
  /\ \A k \in 1..Len(returned) :
       LET model == returned[k]
           keys == DOMAIN model.classes
       IN /\ model.statistics.struts_actions =
               Cardinality({q \in keys : model.classes[q].is_struts_action})
          /\ model.statistics.corba_servants =
               Cardinality({q \in keys : model.classes[q].is_corba_servant})
  /\ \A i \in 1..Len(tasks) :
       (tasks[i].state = "done" /\ tasks[i].result # None
        /\ ~IsException(tasks[i].result)) =>
         ~(tasks[i].result.is_corba_servant /\ tasks[i].result.is_corba_helper)
====
